---- MODULE Spec2Model ----
(***************************************************************************)
(* Model of the retrieval / incremental-indexing engine of                 *)
(* rag-augmented-node-api.                                                 *)
(*                                                                         *)
(* Part I: record manager (recordManager.js), LanceVectorStore mutation    *)
(* (vectorStore.js) and buildIndex (indexer.js).                           *)
(*                                                                         *)
(* A JavaScript Set iterates in insertion order, so a Set<id> is modelled  *)
(* as a duplicate-free sequence of ids.  The LanceDB table is a bag of     *)
(* rows (the backend keeps no uniqueness constraint on the id column).     *)
(***************************************************************************)
EXTENDS Bags, FiniteSets, Integers, Sequences, TLC

\* ------------------------------------------------------------------ bounds
MaxChunks == 2
MaxBatch == 2
MaxRows == 2
MaxIdSetLen == 2

\* --------------------------------------------------------- corpus universe
Sources == {"a.md"}

SourceRank == [s \in Sources |-> 1]

Contents == {"refund policy applies", "refund policy applied"}

VARIABLES
    tableExists,    \* whether the LanceDB table exists on disk
    rows,           \* the rows of the LanceDB table (a bag of records)
    manifestFile,   \* .cache/record_manager.json: [state, ids]
    pc,             \* position of the buildIndex run
    mode,           \* buildIndex option
    batchSize,      \* buildIndex option
    items,          \* computeChunkMeta(chunks).items
    currentIdsSet,  \* computeChunkMeta(chunks).idSet
    table,          \* store.table is non-null
    previousIdsSet, \* loadManifest(manifestPath)
    toAdd,          \* diffManifests(...).toAdd
    toDelete,       \* diffManifests(...).toDelete
    i,              \* loop index of the batch loop
    vectors,        \* the embedded batch waiting to be added
    allRecords,     \* full mode: records embedded so far
    added,          \* incremental mode: the added counter
    deleteThrew,    \* the catch block of the delete step ran
    calls,          \* the service / store / file calls this run has issued, in order
    stoppedAt,      \* pc at which the run threw or the process died
    result,         \* the value buildIndex returned
    after,          \* how this run relates to the run before it
    prior,          \* the table rows and the manifest file this run started from
    lastRun,        \* what is remembered of the run that ended last
    everStopped,    \* some run so far ended without returning
    dPrev,          \* diffManifests alone: argument previousIdsSet
    dCur,           \* diffManifests alone: argument currentIdsSet
    dOut,           \* diffManifests alone: the returned value
    dPc,            \* diffManifests alone: "call" or "returned"
    rVec,           \* hybridSearch: the rows the backend's vector search answers with
    rFts,           \* hybridSearch: the rows the backend's full-text search answers with
    rK,             \* hybridSearch: option rrfK
    rTopK,          \* hybridSearch: option topK
    rOut,           \* hybridSearch: the values returned by the calls made so far
    rPc,            \* hybridSearch: "idle" or "ready"
    mN,             \* hybridSearchMulti: variantEmbeds.length
    mPer,           \* hybridSearchMulti: option perQueryTopK
    mFinal,         \* hybridSearchMulti: option finalTopK
    mK,             \* hybridSearchMulti: option rrfK
    mI,             \* hybridSearchMulti: loop index i
    mHits,          \* hybridSearchMulti: what hybridSearch returned for each variant so far
    mBest,          \* hybridSearchMulti: the Map best, in insertion order
    mOut,           \* hybridSearchMulti: the returned value
    mPc,            \* hybridSearchMulti: "idle", "loop" or "returned"
    aTable,         \* ask: store.table is non-null
    aContextK,      \* ask: CONTEXT_K
    aRrfK,          \* ask: RRF_K
    aPc,            \* ask: position of the request
    aOpts,          \* ask: options (filters, mustInclude, mustIncludeMode)
    aRaw,           \* POST /ask: body.question as received
    aQuestion,      \* ask: the question argument
    aRewrites,      \* ask: rewrites
    aHyde,          \* ask: hyde
    aTexts,         \* ask: variantTexts
    aCaught,        \* ask: the errors its catch blocks received, with the step
    aMerged,        \* ask: mergedHits
    aFiltered,      \* ask: filtered
    aSelected,      \* ask: selected
    aCalls,         \* ask: the service calls the request has issued, in order
    aResult,        \* ask: the returned value
    aError,         \* ask: the error the request was rejected with
    wPc,            \* withRetry: "off", "call", "backoff", "returned" or "threw"
    wAttempt,       \* withRetry: attempt
    wFailures,      \* withRetry: the errors fn() has rejected with, in order
    wWaits,         \* withRetry: the backoffMs it has slept, in order
    wThrown,        \* withRetry: the error it threw
    cMem,           \* caches: embedCache, augmentCache, answerCache (entry of each key)
    cDisk,          \* caches: the three files under .cache (entry of each key as written)
    cPc,            \* caches: position of each ask request
    cOut,           \* caches: what each ask request returned
    cTasks,         \* caches: the tasks queued on cacheWriteChain, in enqueue order
    sExists,        \* store: the database holds the table
    sRows,          \* store: the rows of the table
    sTable,         \* store: this.table is not null
    sLast,          \* store: the last method called, what it was given, what it threw
    pdHits,         \* pickDiverse: hits
    pdK,            \* pickDiverse: k
    pdRrfK,         \* pickDiverse: the rrfK the hits were fused with (0: hits not from a search)
    pdI,            \* pickDiverse: number of hits the loop has been through
    pdPicked,       \* pickDiverse: picked
    pdPc,           \* pickDiverse: position
    eCache,         \* embedTextsCached: embedCache
    eTexts,         \* embedTextsCached: texts
    eMissIndexes,   \* embedTextsCached: missIndexes (0-based)
    eSent,          \* embedTextsCached: the batches sent to embedTexts during the call
    eOut,           \* embedTextsCached: the vectors returned
    ePc,            \* embedTextsCached: position
    hVec,           \* hybridSearch in steps: the rows the vector search answers with
    hFts,           \* hybridSearch in steps: the rows the full-text search answers with
    hTopK,          \* hybridSearch in steps: option topK
    hK,             \* hybridSearch in steps: option rrfK
    hIssued,        \* hybridSearch in steps: the searches issued, in order
    hSettled,       \* hybridSearch in steps: the searches that have settled, in order
    hOut,           \* hybridSearch in steps: the returned value, if any
    hPc,            \* hybridSearch in steps: position
    tExists,        \* two runs: whether the table exists on disk
    tRows,          \* two runs: the rows of the table
    tManifest,      \* two runs: the manifest file
    tCorpus,        \* two runs: the corpus both runs read
    tBatch,         \* two runs: batchSize
    tOverlap,       \* two runs: one run started while the other was running
    tRun            \* two runs: the locals of each run

diskVars == <<tableExists, rows, manifestFile>>

optVars == <<mode, batchSize, items, currentIdsSet>>

diffVars == <<previousIdsSet, toAdd, toDelete>>

loopVars == <<i, vectors, allRecords, added>>

vars == <<tableExists, rows, manifestFile, pc, mode, batchSize, items,
          currentIdsSet, table, previousIdsSet, toAdd, toDelete, i, vectors,
          allRecords, added, deleteThrew, calls, stoppedAt, result, after, prior, lastRun,
          everStopped, dPrev, dCur, dOut, dPc, rVec, rFts, rK, rTopK, rOut, rPc,
          mN, mPer, mFinal, mK, mI, mHits, mBest, mOut, mPc,
          aTable, aContextK, aRrfK, aPc, aOpts, aRaw, aQuestion, aRewrites, aHyde, aTexts,
          aCaught, aMerged, aFiltered, aSelected, aCalls, aResult, aError,
          wPc, wAttempt, wFailures, wWaits, wThrown,
          cMem, cDisk, cPc, cOut, cTasks,
          sExists, sRows, sTable, sLast,
          pdHits, pdK, pdRrfK, pdI, pdPicked, pdPc,
          eCache, eTexts, eMissIndexes, eSent, eOut, ePc,
          hVec, hFts, hTopK, hK, hIssued, hSettled, hOut, hPc,
          tExists, tRows, tManifest, tCorpus, tBatch, tOverlap, tRun>>

indexerVars == <<tableExists, rows, manifestFile, pc, mode, batchSize, items,
                 currentIdsSet, table, previousIdsSet, toAdd, toDelete, i, vectors,
                 allRecords, added, deleteThrew, calls, stoppedAt, result, after, prior, lastRun,
                 everStopped>>

diffCallVars == <<dPrev, dCur, dOut, dPc>>

rrfVars == <<rVec, rFts, rK, rTopK, rOut, rPc>>

\* everything but the variables of the component named
multiVars == <<mN, mPer, mFinal, mK, mI, mHits, mBest, mOut, mPc>>

askVars == <<aTable, aContextK, aRrfK, aPc, aOpts, aRaw, aQuestion, aRewrites, aHyde,
             aTexts, aCaught, aMerged, aFiltered, aSelected, aCalls, aResult, aError>>

retryVars == <<wPc, wAttempt, wFailures, wWaits, wThrown>>

cacheVars == <<cMem, cDisk, cPc, cOut, cTasks>>

storeVars == <<sExists, sRows, sTable, sLast>>

pickVars == <<pdHits, pdK, pdRrfK, pdI, pdPicked, pdPc>>

embedVars == <<eCache, eTexts, eMissIndexes, eSent, eOut, ePc>>

hybVars == <<hVec, hFts, hTopK, hK, hIssued, hSettled, hOut, hPc>>

twoVars == <<tExists, tRows, tManifest, tCorpus, tBatch, tOverlap, tRun>>

outsideIndexer == <<diffCallVars, rrfVars, multiVars, askVars, retryVars, cacheVars, storeVars, pickVars, embedVars, hybVars, twoVars>>

outsideDiff == <<indexerVars, rrfVars, multiVars, askVars, retryVars, cacheVars, storeVars, pickVars, embedVars, hybVars, twoVars>>

outsideRrf == <<indexerVars, diffCallVars, multiVars, askVars, retryVars, cacheVars, storeVars, pickVars, embedVars, hybVars, twoVars>>

outsideMulti == <<indexerVars, diffCallVars, rrfVars, askVars, retryVars, cacheVars, storeVars, pickVars, embedVars, hybVars, twoVars>>

outsideAsk == <<indexerVars, diffCallVars, rrfVars, multiVars, retryVars, cacheVars, storeVars, pickVars, embedVars, hybVars, twoVars>>

outsideRetry == <<indexerVars, diffCallVars, rrfVars, multiVars, askVars, cacheVars, storeVars, pickVars, embedVars, hybVars, twoVars>>

outsideCache == <<indexerVars, diffCallVars, rrfVars, multiVars, askVars, retryVars, storeVars, pickVars, embedVars, hybVars, twoVars>>

outsideStore == <<indexerVars, diffCallVars, rrfVars, multiVars, askVars, retryVars, cacheVars, pickVars, embedVars, hybVars, twoVars>>

outsidePick == <<indexerVars, diffCallVars, rrfVars, multiVars, askVars, retryVars, cacheVars, storeVars, embedVars, hybVars, twoVars>>

outsideEmbed == <<indexerVars, diffCallVars, rrfVars, multiVars, askVars, retryVars, cacheVars, storeVars, pickVars, hybVars, twoVars>>

outsideHyb == <<indexerVars, diffCallVars, rrfVars, multiVars, askVars, retryVars, cacheVars, storeVars, pickVars, embedVars, twoVars>>

outsideTwo == <<indexerVars, diffCallVars, rrfVars, multiVars, askVars, retryVars, cacheVars, storeVars, pickVars, embedVars, hybVars>>

\* ---------------------------------------------------------------- helpers
Range(s) == {s[k] : k \in DOMAIN s}

NoDuplicates(s) == \A a, b \in DOMAIN s : a # b => s[a] # s[b]

Min(a, b) == IF a < b THEN a ELSE b

\* Array.prototype.includes / Set.prototype.has on an insertion-ordered collection
Includes(s, x) == \E k \in DOMAIN s : s[k] = x

\* new Set(array): first occurrences, in order
RECURSIVE SetFromArray(_)
SetFromArray(a) ==
    IF a = <<>> THEN <<>>
    ELSE LET front == SetFromArray(SubSeq(a, 1, Len(a) - 1))
             last  == a[Len(a)]
         IN  IF Includes(front, last) THEN front ELSE Append(front, last)

RECURSIVE BagOfSeq(_)
BagOfSeq(s) ==
    IF s = <<>> THEN EmptyBag
    ELSE BagOfSeq(Tail(s)) (+) SetToBag({Head(s)})

\* a slice that comes out empty when fewer than n elements are left
Slice_DropPartial(a, from, n) ==
    IF from + n <= Len(a) THEN SubSeq(a, from + 1, from + n) ELSE <<>>

\* array.slice(from, from + n), 0-based from
Slice(a, from, n) == SubSeq(a, from + 1, Min(from + n, Len(a)))

\* ---------------------------------------------------------- recordManager
\* crypto.createHash("sha256").update(text).digest("hex"), tabulated on Contents
sha256(text) ==
    CASE text = "refund policy applies" ->
            "c9564aaa60d1633d199f4364fdae3e8661d5d4cac47480d553bc0fe021f02e7f"
      [] text = "refund policy applied" ->
            "b837acccd84e974a49c27fd0c9b09ea170b00ba823752f2d20480bdb48bb32ed"
      [] text = "Shipping is free" ->
            "70694f957f71995e57eea075247988e819943bac63c404ec71bca3b976424bd4"
      [] text = "Partial REFUND policy" ->
            "0ebd56980a80e6d2dc5f3d5f9121ff8593732cc5bfc93854b2bc69a1270fcda0"

HashPrefixLen == 20

makeChunkId(source, contentHash) ==
    source \o ":" \o SubSeq(contentHash, 1, HashPrefixLen)

makeCitationId(source, chunkIndex) == source \o "#" \o ToString(chunkIndex)

\* loadAndChunkDocs: files in sorted order, chunkIndex = position within the file
ChunkIndexAt(c, k) == Cardinality({j \in 1..(k - 1) : c[j].source = c[k].source})

loadAndChunkDocs(c) ==
    [k \in 1..Len(c) |->
        [source |-> c[k].source, chunkIndex |-> ChunkIndexAt(c, k), content |-> c[k].content]]

computeChunkMetaItems(chunks) ==
    [k \in 1..Len(chunks) |->
        LET ch == chunks[k]
            contentHash == sha256(ch.content)
        IN  [id          |-> makeChunkId(ch.source, contentHash),
             contentHash |-> contentHash,
             citationId  |-> makeCitationId(ch.source, ch.chunkIndex),
             source      |-> ch.source,
             chunkIndex  |-> ch.chunkIndex,
             content     |-> ch.content]]

computeChunkMetaIdSet(its) == SetFromArray([k \in 1..Len(its) |-> its[k].id])

loadManifest(file) == IF file.state = "ok" THEN file.ids ELSE <<>>

SelectNotIn(a, b) == SelectSeq(a, LAMBDA id : ~Includes(b, id))

\* a diff that takes toDelete from the wrong side
diffManifests_DeleteNew(previous, current) ==
    [toAdd    |-> SelectNotIn(current, previous),
     toDelete |-> SelectNotIn(current, previous)]

diffManifests_NoHasCheck(previous, current) ==
    [toAdd |-> current, toDelete |-> SelectNotIn(previous, current)]

diffManifests(previous, current) ==
    [toAdd    |-> SelectNotIn(current, previous),
     toDelete |-> SelectNotIn(previous, current)]

\* -------------------------------------------------------------- embedTexts
\* one unit vector per input text, same order (the vector itself is opaque)
embedTexts(texts) == [k \in 1..Len(texts) |-> <<"unit", texts[k]>>]

\* the record buildIndex writes for item x with vector v
Record(x, v) ==
    [id          |-> x.id,
     citationId  |-> x.citationId,
     source      |-> x.source,
     chunkIndex  |-> x.chunkIndex,
     content     |-> x.content,
     contentHash |-> x.contentHash,
     vector      |-> v]

Records(batch, vecs) == [k \in 1..Len(batch) |-> Record(batch[k], vecs[k])]

Contents_(batch) == [k \in 1..Len(batch) |-> batch[k].content]

\* -------------------------------------------------------- LanceVectorStore
\* the methods class LanceVectorStore defines
LanceVectorStoreMethods ==
    {"init", "overwrite", "add", "reload", "ensureIndexes", "vectorSearch",
     "ftsSearch", "rrfFuse", "hybridSearch", "hybridSearchMulti"}

\* ids of the rows of the table
RowIds(rs) == {r.id : r \in BagToSet(rs)}

\* number of rows carrying id
CountId(rs, id) ==
    LET S == {r \in BagToSet(rs) : r.id = id}
        RECURSIVE Sum(_)
        Sum(T) == IF T = {} THEN 0
                  ELSE LET one == CHOOSE x \in T : TRUE
                       IN  CopiesIn(one, rs) + Sum(T \ {one})
    IN  Sum(S)

\* rows without those whose id is in ids
WithoutIds(rs, ids) ==
    LET keep == {r \in BagToSet(rs) : ~Includes(ids, r.id)}
    IN  [r \in keep |-> rs[r]]

\* store.deleteByIds(ids): calling a method the class does not define throws
\* a TypeError before any row is touched
CallDeleteByIds(rs, ids) ==
    IF "deleteByIds" \in LanceVectorStoreMethods
    THEN [threw |-> FALSE, rows |-> WithoutIds(rs, ids)]
    ELSE [threw |-> TRUE, rows |-> rs]

\* table.add(records) / createTable(records): rows are appended as given
TableAdd(rs, records) == rs (+) BagOfSeq(records)

WithinRows(rs) == BagCardinality(rs) <= MaxRows

\* ------------------------------------------------------------- buildIndex
Modes == {"full", "incremental"}

Running == {"fullEmbed", "dropTable", "createTable", "loadManifest", "delete",
            "incEmbed", "add", "ensureIndexes", "saveManifest", "writing"}

Ended == {"idle", "failed", "crashed"}

\* stages of an incremental run that come before its manifest save
BeforeSave == {"loadManifest", "delete", "incEmbed", "add", "ensureIndexes", "saveManifest"}

\* every corpus the chunker can produce within the bounds: files in sorted order
Corpora ==
    {c \in UNION {[1..n -> [source : Sources, content : Contents]] : n \in 0..MaxChunks} :
        \A k \in 1..(Len(c) - 1) : SourceRank[c[k].source] <= SourceRank[c[k + 1].source]}

NoManifest == [state |-> "absent", ids |-> <<>>]

NoResult == [mode |-> "none", chunksCount |-> 0, added |-> 0, deleted |-> 0]

\* the content of exactly one chunk differs, everything else is the same
OneEdit(old, new) ==
    /\ Len(old) = Len(new)
    /\ \A k \in DOMAIN old : old[k].source = new[k].source /\ old[k].chunkIndex = new[k].chunkIndex
    /\ Cardinality({k \in DOMAIN old : old[k].content # new[k].content}) = 1

NoPrior == [rows |-> EmptyBag, manifestFile |-> NoManifest]

NoLast == [kind |-> "none", items |-> <<>>]

\* how a run over newItems relates to the run that ended last
Relation(newItems) ==
    IF lastRun.kind = "done" /\ newItems = lastRun.items THEN "sameAfterDone"
    ELSE IF lastRun.kind = "done" /\ OneEdit(lastRun.items, newItems) THEN "oneEditAfterDone"
    ELSE IF lastRun.kind = "interruptedAdd" /\ newItems = lastRun.items
         THEN "sameAfterInterruptedAdd"
    ELSE "other"

\* const addItems = items.filter((x) => toAdd.includes(x.id))
AddItemsOf(its, ta) == SelectSeq(its, LAMBDA x : Includes(ta, x.id))

addItems == AddItemsOf(items, toAdd)

\* where the incremental run goes once the batch loop is entered at index k
LoopEntry(k, n) == IF k < n THEN "incEmbed" ELSE "ensureIndexes"

\* the catch block of the delete step logs and falls through to the add loop
PcAfterDeleteError_Rethrow(n) == "failed"

PcAfterDeleteError(n) == LoopEntry(0, n)

\* after the diff: the delete step runs only when toDelete is non-empty
PcAfterDiff_SaveFirst(td, n) == "saveManifest"

PcAfterDiff(td, n) == IF Len(td) > 0 THEN "delete" ELSE LoopEntry(0, n)

\* full mode: store.overwrite is followed by store.ensureIndexes
PcAfterOverwrite_SkipIndexes == "saveManifest"

PcAfterOverwrite == "ensureIndexes"

\* the id set handed to saveManifest
ManifestToSave_OnlyAdded == toAdd

ManifestToSave == currentIdsSet

IndexerInit ==
    /\ tableExists = FALSE
    /\ rows = EmptyBag
    /\ manifestFile = NoManifest
    /\ pc = "idle"
    /\ mode = "incremental"
    /\ batchSize = 1
    /\ items = <<>>
    /\ currentIdsSet = <<>>
    /\ table = FALSE
    /\ previousIdsSet = <<>>
    /\ toAdd = <<>>
    /\ toDelete = <<>>
    /\ i = 0
    /\ vectors = <<>>
    /\ allRecords = <<>>
    /\ added = 0
    /\ deleteThrew = FALSE
    /\ calls = <<>>
    /\ stoppedAt = "none"
    /\ result = NoResult
    /\ after = "other"
    /\ prior = NoPrior
    /\ lastRun = NoLast
    /\ everStopped = FALSE

\* buildIndex is called with the documents c under data/: loadAndChunkDocs,
\* computeChunkMeta, LanceVectorStore.init
Start(m, b, c) ==
    /\ UNCHANGED outsideIndexer
    /\ pc \in Ended
    /\ LET its == computeChunkMetaItems(loadAndChunkDocs(c))
       IN  /\ items' = its
           /\ currentIdsSet' = computeChunkMetaIdSet(its)
           /\ after' = Relation(its)
           /\ pc' = IF m = "full"
                    THEN (IF Len(its) > 0 THEN "fullEmbed" ELSE "dropTable")
                    ELSE "loadManifest"
    /\ prior' = [rows |-> rows, manifestFile |-> manifestFile]
    /\ mode' = m
    /\ batchSize' = b
    /\ table' = tableExists
    /\ previousIdsSet' = <<>>
    /\ toAdd' = <<>>
    /\ toDelete' = <<>>
    /\ i' = 0
    /\ vectors' = <<>>
    /\ allRecords' = <<>>
    /\ added' = 0
    /\ deleteThrew' = FALSE
    /\ calls' = <<>>
    /\ stoppedAt' = "none"
    /\ result' = NoResult
    /\ lastRun' = NoLast
    /\ UNCHANGED <<diskVars, everStopped>>

\* the run ends without returning (a thrown error, or the process dies): its
\* locals are gone
Stop(how) ==
    /\ pc' = how
    /\ stoppedAt' = pc
    /\ lastRun' = IF mode = "incremental" /\ pc \in BeforeSave /\ added > 0
               THEN [kind |-> "interruptedAdd", items |-> items]
               ELSE NoLast
    /\ mode' = "incremental"
    /\ batchSize' = 1
    /\ items' = <<>>
    /\ currentIdsSet' = <<>>
    /\ table' = FALSE
    /\ previousIdsSet' = <<>>
    /\ toAdd' = <<>>
    /\ toDelete' = <<>>
    /\ i' = 0
    /\ vectors' = <<>>
    /\ allRecords' = <<>>
    /\ added' = 0
    /\ deleteThrew' = FALSE
    /\ calls' = <<>>
    /\ after' = "other"
    /\ prior' = NoPrior
    /\ everStopped' = TRUE
    /\ UNCHANGED <<diskVars, result>>

\* ---- full rebuild
\* one pass of the full-mode batch loop: embedTexts, then allRecords.push
FullEmbedBatch ==
    /\ UNCHANGED outsideIndexer
    /\ pc = "fullEmbed"
    /\ LET batch == Slice(items, i, batchSize)
           vecs  == embedTexts(Contents_(batch))
       IN  allRecords' = allRecords \o Records(batch, vecs)
    /\ i' = i + batchSize
    /\ pc' = IF i' < Len(items) THEN "fullEmbed" ELSE "dropTable"
    /\ calls' = Append(calls, "embed")
    /\ UNCHANGED <<diskVars, optVars, table, diffVars, vectors, added, deleteThrew,
                   stoppedAt, result, after, prior, lastRun, everStopped>>

\* embedTexts rejects (network, quota): the error propagates out of buildIndex
EmbedFail ==
    /\ UNCHANGED outsideIndexer
    /\ pc \in {"fullEmbed", "incEmbed"}
    /\ Stop("failed")

\* store.overwrite, first half: conn.dropTable (its own failure is swallowed)
OverwriteDrop ==
    /\ UNCHANGED outsideIndexer
    /\ pc = "dropTable"
    /\ tableExists' = FALSE
    /\ rows' = EmptyBag
    /\ pc' = "createTable"
    /\ calls' = Append(calls, "overwrite")
    /\ UNCHANGED <<manifestFile, optVars, table, diffVars, loopVars, deleteThrew,
                   stoppedAt, result, after, prior, lastRun, everStopped>>

\* store.overwrite, second half: conn.createTable(records, mode overwrite)
OverwriteCreate ==
    /\ UNCHANGED outsideIndexer
    /\ pc = "createTable"
    /\ tableExists' = TRUE
    /\ rows' = BagOfSeq(allRecords)
    /\ WithinRows(rows')
    /\ table' = TRUE
    /\ pc' = PcAfterOverwrite
    /\ UNCHANGED <<manifestFile, optVars, diffVars, loopVars, deleteThrew, calls,
                   stoppedAt, result, after, prior, lastRun, everStopped>>

\* conn.createTable rejects
OverwriteCreateFail ==
    /\ UNCHANGED outsideIndexer
    /\ pc = "createTable"
    /\ Stop("failed")

\* ---- incremental
\* loadManifest, then diffManifests
LoadAndDiff ==
    /\ UNCHANGED outsideIndexer
    /\ pc = "loadManifest"
    /\ LET previous == loadManifest(manifestFile)
           d        == diffManifests(previous, currentIdsSet)
       IN  /\ previousIdsSet' = previous
           /\ toAdd' = d.toAdd
           /\ toDelete' = d.toDelete
           /\ pc' = PcAfterDiff(d.toDelete, Len(AddItemsOf(items, d.toAdd)))
    /\ calls' = Append(calls, "loadManifest")
    /\ UNCHANGED <<diskVars, optVars, table, loopVars, deleteThrew, stoppedAt, result, after, prior, lastRun, everStopped>>

\* try { await store.deleteByIds(toDelete) } catch { logger.warn }
DeleteStep ==
    /\ UNCHANGED outsideIndexer
    /\ pc = "delete"
    /\ LET r    == CallDeleteByIds(rows, toDelete)
           next == IF r.threw THEN PcAfterDeleteError(Len(addItems))
                              ELSE LoopEntry(0, Len(addItems))
       IN  IF next = "failed"
           THEN Stop("failed")
           ELSE /\ rows' = r.rows
                /\ deleteThrew' = r.threw
                /\ pc' = next
                /\ calls' = Append(calls, "deleteByIds")
                /\ UNCHANGED <<tableExists, manifestFile, optVars, table, diffVars,
                               loopVars, stoppedAt, result, after, prior, lastRun, everStopped>>

\* one pass of the incremental batch loop, up to the await of embedTexts
IncEmbedBatch ==
    /\ UNCHANGED outsideIndexer
    /\ pc = "incEmbed"
    /\ vectors' = embedTexts(Contents_(Slice(addItems, i, batchSize)))
    /\ pc' = "add"
    /\ calls' = Append(calls, "embed")
    /\ UNCHANGED <<diskVars, optVars, table, diffVars, i, allRecords, added, deleteThrew,
                   stoppedAt, result, after, prior, lastRun, everStopped>>

\* store.add(records): createTable when this.table is null, else table.add
AddBatch ==
    /\ UNCHANGED outsideIndexer
    /\ pc = "add"
    /\ LET records == Records(Slice(addItems, i, batchSize), vectors)
       IN  /\ rows' = IF table THEN TableAdd(rows, records) ELSE BagOfSeq(records)
           /\ added' = added + Len(records)
    /\ WithinRows(rows')
    /\ tableExists' = TRUE
    /\ table' = TRUE
    /\ i' = i + batchSize
    /\ vectors' = <<>>
    /\ pc' = LoopEntry(i', Len(addItems))
    /\ calls' = Append(calls, "add")
    /\ UNCHANGED <<manifestFile, optVars, diffVars, allRecords, deleteThrew,
                   stoppedAt, result, after, prior, lastRun, everStopped>>

\* store.add rejects
AddFail ==
    /\ UNCHANGED outsideIndexer
    /\ pc = "add"
    /\ Stop("failed")

\* ---- both modes
\* store.ensureIndexes: throws without a table; index-build errors are swallowed
EnsureIndexes ==
    /\ UNCHANGED outsideIndexer
    /\ pc = "ensureIndexes"
    /\ IF table
       THEN /\ pc' = "saveManifest"
            /\ calls' = Append(calls, "ensureIndexes")
            /\ UNCHANGED <<diskVars, optVars, table, diffVars, loopVars, deleteThrew,
                           stoppedAt, result, after, prior, lastRun, everStopped>>
       ELSE Stop("failed")

\* saveManifest: fs.writeFile opens the file for writing, which truncates it
SaveManifestOpen ==
    /\ UNCHANGED outsideIndexer
    /\ pc = "saveManifest"
    /\ manifestFile' = [state |-> "partial", ids |-> <<>>]
    /\ pc' = "writing"
    /\ calls' = Append(calls, "saveManifest")
    /\ UNCHANGED <<tableExists, rows, optVars, table, diffVars, loopVars,
                   deleteThrew, stoppedAt, result, after, prior, lastRun, everStopped>>

\* saveManifest: the JSON text is written out; buildIndex returns
SaveManifestWrite ==
    /\ UNCHANGED outsideIndexer
    /\ pc = "writing"
    /\ manifestFile' = [state |-> "ok", ids |-> ManifestToSave]
    /\ pc' = "done"
    /\ result' = IF mode = "full"
                 THEN [mode |-> mode, chunksCount |-> Len(items),
                       added |-> Len(items), deleted |-> 0]
                 ELSE [mode |-> mode, chunksCount |-> Len(items),
                       added |-> added, deleted |-> Len(toDelete)]
    /\ UNCHANGED <<tableExists, rows, optVars, table, diffVars, loopVars,
                   deleteThrew, calls, stoppedAt, after, prior>>
    /\ lastRun' = [kind |-> "done", items |-> items]
    /\ UNCHANGED everStopped

\* buildIndex has returned its value; the caller goes on
Return ==
    /\ UNCHANGED outsideIndexer
    /\ pc = "done"
    /\ pc' = "idle"
    /\ mode' = "incremental"
    /\ batchSize' = 1
    /\ items' = <<>>
    /\ currentIdsSet' = <<>>
    /\ table' = FALSE
    /\ previousIdsSet' = <<>>
    /\ toAdd' = <<>>
    /\ toDelete' = <<>>
    /\ i' = 0
    /\ vectors' = <<>>
    /\ allRecords' = <<>>
    /\ added' = 0
    /\ deleteThrew' = FALSE
    /\ calls' = <<>>
    /\ result' = NoResult
    /\ after' = "other"
    /\ prior' = NoPrior
    /\ UNCHANGED <<diskVars, stoppedAt, lastRun, everStopped>>

\* fs.mkdir or fs.writeFile rejects
SaveManifestFail ==
    /\ UNCHANGED outsideIndexer
    /\ pc \in {"saveManifest", "writing"}
    /\ Stop("failed")

\* the process dies at an await of the run
Crash ==
    /\ UNCHANGED outsideIndexer
    /\ pc \in Running
    /\ Stop("crashed")

IndexerNext ==
    \/ \E m \in Modes, b \in 1..MaxBatch, c \in Corpora : Start(m, b, c)
    \/ FullEmbedBatch
    \/ EmbedFail
    \/ OverwriteDrop
    \/ OverwriteCreate
    \/ OverwriteCreateFail
    \/ LoadAndDiff
    \/ DeleteStep
    \/ IncEmbedBatch
    \/ AddBatch
    \/ AddFail
    \/ EnsureIndexes
    \/ SaveManifestOpen
    \/ SaveManifestWrite
    \/ Return
    \/ SaveManifestFail
    \/ Crash

\* ------------------------------------------------- diffManifests on its own
DiffSources == {"a.md", "b.md"}

DiffIds == {makeChunkId(s, sha256(t)) : s \in DiffSources, t \in Contents}

\* every Set<id> of at most MaxIdSetLen ids, in every insertion order
IdSets == {q \in UNION {[1..n -> DiffIds] : n \in 0..MaxIdSetLen} : NoDuplicates(q)}

NoDiff == [toAdd |-> <<>>, toDelete |-> <<>>]

DiffIdle ==
    /\ dPrev = <<>>
    /\ dCur = <<>>
    /\ dOut = NoDiff
    /\ dPc = "idle"

DiffInit ==
    /\ dPrev \in IdSets
    /\ dCur \in IdSets
    /\ dOut = NoDiff
    /\ dPc = "call"

DiffCall ==
    /\ dPc = "call"
    /\ dOut' = diffManifests(dPrev, dCur)
    /\ dPc' = "returned"
    /\ UNCHANGED <<dPrev, dCur>>
    /\ UNCHANGED outsideDiff

\* ------------------------------------------------------------------ scores
\* a score is a fraction n / d with d > 0, kept in lowest terms
RECURSIVE Gcd(_, _)
Gcd(a, b) == IF b = 0 THEN a ELSE Gcd(b, a % b)

Abs(x) == IF x < 0 THEN 0 - x ELSE x

Rat(n, d) ==
    LET g == Gcd(Abs(n), d)
    IN  [n |-> n \div g, d |-> d \div g]

Zero == [n |-> 0, d |-> 1]

One == [n |-> 1, d |-> 1]

RatAdd(a, b) == Rat(a.n * b.d + b.n * a.d, a.d * b.d)

RatSub(a, b) == Rat(a.n * b.d - b.n * a.d, a.d * b.d)

RatLess(a, b) == a.n * b.d < b.n * a.d

\* ------------------------------------------- LanceVectorStore: the searches
\* the hit of a row the backend answered with
Item(r) ==
    [id            |-> r.id,
     source        |-> r.source,
     chunkIndex    |-> r.chunkIndex,
     content       |-> r.content,
     embeddingUnit |-> r.vector]

\* vectorSearch: score = 1 - _distance, in the order of the backend's answer
vectorSearch(answer) ==
    [k \in 1..Len(answer) |->
        [item        |-> Item(answer[k]),
         score       |-> RatSub(One, answer[k]._distance),
         _rankSource |-> "vector"]]

\* ftsSearch: score = _score, in the order of the backend's answer
ftsSearch(answer) ==
    [k \in 1..Len(answer) |->
        [item        |-> Item(answer[k]),
         score       |-> answer[k]._score,
         _rankSource |-> "fts"]]

\* [...hits].sort((a, b) => b.score - a.score): Array.prototype.sort is
\* stable, a hit goes behind every hit whose score is not smaller
InsertDesc(sorted, h) ==
    LET p == Cardinality({j \in DOMAIN sorted : ~RatLess(sorted[j].score, h.score)})
    IN  SubSeq(sorted, 1, p) \o <<h>> \o SubSeq(sorted, p + 1, Len(sorted))

RECURSIVE StableSortDesc(_)
StableSortDesc(hits) ==
    IF hits = <<>> THEN <<>>
    ELSE InsertDesc(StableSortDesc(SubSeq(hits, 1, Len(hits) - 1)), hits[Len(hits)])

IsSortedDesc(hits) ==
    \A k \in 1..(Len(hits) - 1) : ~RatLess(hits[k].score, hits[k + 1].score)

\* a sort that may leave hits of equal score in any order
SortByScore_Unstable(hits) ==
    LET n  == Len(hits)
        ps == {pi \in [1..n -> 1..n] : \A a, b \in 1..n : a # b => pi[a] # pi[b]}
    IN  {q \in {[k \in 1..n |-> hits[pi[k]]] : pi \in ps} : IsSortedDesc(q)}

\* the orders the sort can produce
SortByScore(hits) == {StableSortDesc(hits)}

\* addRankScore(hits, listName) of rrfFuse; out is the Map, in insertion order
RECURSIVE addRankScore(_, _, _, _)
addRankScore(out, hits, listName, K) ==
    IF hits = <<>> THEN out
    ELSE LET prevOut == addRankScore(out, SubSeq(hits, 1, Len(hits) - 1), listName, K)
             h       == hits[Len(hits)]
             rank    == Len(hits)
             add     == Rat(1, K + rank)
             at      == {j \in DOMAIN prevOut : prevOut[j].item.id = h.item.id}
         IN  IF at = {}
             THEN Append(prevOut,
                         [item  |-> h.item,
                          score |-> add,
                          _rrf  |-> [vector |-> IF listName = "vector" THEN add ELSE Zero,
                                     fts    |-> IF listName = "fts" THEN add ELSE Zero]])
             ELSE LET j == CHOOSE x \in at : TRUE
                  IN  [prevOut EXCEPT ![j].score = RatAdd(@, add),
                                      ![j]._rrf[listName] = RatAdd(@, add)]

\* static rrfFuse(vectorHits, ftsHits, { K }): the values it can return
rrfFuse(vectorHits, ftsHits, K) ==
    UNION {UNION {SortByScore(addRankScore(addRankScore(<<>>, v, "vector", K), f, "fts", K)) :
                    f \in SortByScore(ftsHits)} :
             v \in SortByScore(vectorHits)}

\* hybridSearch once both searches have answered: the values it can return
hybridSearch(vectorAnswer, ftsAnswer, topK, rrfK) ==
    {Slice(fused, 0, topK) :
        fused \in rrfFuse(vectorSearch(vectorAnswer), ftsSearch(ftsAnswer), rrfK)}

\* ---- hybridSearch on its own
MaxTopK == 2

RrfKs == {1, 60}

\* the rows of a table of three chunks
RrfCorpus ==
    <<[source |-> "a.md", content |-> "refund policy applies"],
      [source |-> "a.md", content |-> "refund policy applied"],
      [source |-> "b.md", content |-> "refund policy applies"]>>

RrfRows ==
    LET its == computeChunkMetaItems(loadAndChunkDocs(RrfCorpus))
    IN  Range(Records(its, embedTexts(Contents_(its))))

\* a row as the backend returns it, with the relevance column f
WithColumn(r, f, v) == [c \in DOMAIN r \cup {f} |-> IF c = f THEN v ELSE r[c]]

\* the answers of the vector search: at most topK rows, nearest first (the
\* same row again when the table holds it more than once, at the same distance)
VectorAnswers(topK) ==
    {q \in UNION {[1..n -> {WithColumn(r, "_distance", d) : r \in RrfRows, d \in {Zero, One}}] :
                    n \in 0..topK} :
        /\ \A k \in 1..(Len(q) - 1) : ~RatLess(q[k + 1]._distance, q[k]._distance)
        /\ \A j, k \in DOMAIN q : q[j].id = q[k].id => q[j]._distance = q[k]._distance}

\* the answers of the full-text search: at most topK rows, best BM25 score first
FtsAnswers(topK) ==
    {q \in UNION {[1..n -> {WithColumn(r, "_score", sc) : r \in RrfRows, sc \in {One, Rat(2, 1)}}] :
                    n \in 0..topK} :
        /\ \A k \in 1..(Len(q) - 1) : ~RatLess(q[k]._score, q[k + 1]._score)
        /\ \A j, k \in DOMAIN q : q[j].id = q[k].id => q[j]._score = q[k]._score}

RrfIdle ==
    /\ rVec = <<>>
    /\ rFts = <<>>
    /\ rK = 60
    /\ rTopK = 1
    /\ rOut = <<>>
    /\ rPc = "idle"

RrfInit ==
    /\ rTopK \in 1..MaxTopK
    /\ rVec \in VectorAnswers(rTopK)
    /\ rFts \in FtsAnswers(rTopK)
    /\ rK \in RrfKs
    /\ rOut = <<>>
    /\ rPc = "ready"

\* hybridSearch(queryVector, queryText, { topK, rrfK }) is called (and called
\* again) while the two searches answer the same
HybridSearchCall ==
    /\ rPc = "ready"
    /\ Len(rOut) < 2
    /\ \E hits \in hybridSearch(rVec, rFts, rTopK, rK) : rOut' = Append(rOut, hits)
    /\ UNCHANGED <<rVec, rFts, rK, rTopK, rPc>>
    /\ UNCHANGED outsideRrf

\* ---- hybridSearchMulti
MaxVariants == 2

MaxFinalTopK == 2

\* the merge of one hit into the Map best, summing the scores of an id
MergeBest_Sum(best, h) ==
    LET at == {j \in DOMAIN best : best[j].item.id = h.item.id}
    IN  IF at = {} THEN Append(best, h)
        ELSE LET j == CHOOSE x \in at : TRUE
             IN  [best EXCEPT ![j].score = RatAdd(@, h.score)]

\* if (!prev || h.score > prev.score) best.set(h.item.id, h): a key that is
\* set again keeps its place in the Map
MergeBest(best, h) ==
    LET at == {j \in DOMAIN best : best[j].item.id = h.item.id}
    IN  IF at = {} THEN Append(best, h)
        ELSE LET j == CHOOSE x \in at : TRUE
             IN  IF RatLess(best[j].score, h.score) THEN [best EXCEPT ![j] = h] ELSE best

\* for (const h of hits) ...
RECURSIVE MergeHits(_, _)
MergeHits(best, hits) ==
    IF hits = <<>> THEN best
    ELSE MergeBest(MergeHits(best, SubSeq(hits, 1, Len(hits) - 1)), hits[Len(hits)])

MultiIdle ==
    /\ mN = 0
    /\ mPer = 1
    /\ mFinal = 1
    /\ mK = 60
    /\ mI = 0
    /\ mHits = <<>>
    /\ mBest = <<>>
    /\ mOut = <<>>
    /\ mPc = "idle"

MultiInit ==
    /\ mN \in 0..MaxVariants
    /\ mPer \in 1..MaxTopK
    /\ mFinal \in 1..MaxFinalTopK
    /\ mK \in RrfKs
    /\ mI = 0
    /\ mHits = <<>>
    /\ mBest = <<>>
    /\ mOut = <<>>
    /\ mPc = "loop"

\* one pass of the loop over the variants: hybridSearch for variant i (the
\* two searches answer with some rows), then the merge of its hits into best
MultiIterate ==
    /\ mPc = "loop"
    /\ mI < mN
    /\ \E va \in VectorAnswers(mPer), fa \in FtsAnswers(mPer) :
          \E hits \in hybridSearch(va, fa, mPer, mK) :
              /\ mHits' = Append(mHits, hits)
              /\ mBest' = MergeHits(mBest, hits)
    /\ mI' = mI + 1
    /\ UNCHANGED <<mN, mPer, mFinal, mK, mOut, mPc>>
    /\ UNCHANGED outsideMulti

\* return [...best.values()].sort(...).slice(0, finalTopK)
MultiReturn ==
    /\ mPc = "loop"
    /\ mI >= mN
    /\ \E sorted \in SortByScore(mBest) : mOut' = Slice(sorted, 0, mFinal)
    /\ mPc' = "returned"
    /\ UNCHANGED <<mN, mPer, mFinal, mK, mI, mHits, mBest>>
    /\ UNCHANGED outsideMulti

MultiNext == MultiIterate \/ MultiReturn

\* ----------------------------------------------------------------- strings
\* String.prototype.toLowerCase, letter by letter
LowerChar(c) ==
    CASE c = "A" -> "a" [] c = "B" -> "b" [] c = "C" -> "c" [] c = "D" -> "d"
      [] c = "E" -> "e" [] c = "F" -> "f" [] c = "G" -> "g" [] c = "H" -> "h"
      [] c = "I" -> "i" [] c = "J" -> "j" [] c = "K" -> "k" [] c = "L" -> "l"
      [] c = "M" -> "m" [] c = "N" -> "n" [] c = "O" -> "o" [] c = "P" -> "p"
      [] c = "Q" -> "q" [] c = "R" -> "r" [] c = "S" -> "s" [] c = "T" -> "t"
      [] c = "U" -> "u" [] c = "V" -> "v" [] c = "W" -> "w" [] c = "X" -> "x"
      [] c = "Y" -> "y" [] c = "Z" -> "z" [] OTHER -> c

RECURSIVE toLowerCase(_)
toLowerCase(str) ==
    IF Len(str) = 0 THEN ""
    ELSE toLowerCase(SubSeq(str, 1, Len(str) - 1)) \o LowerChar(SubSeq(str, Len(str), Len(str)))

\* String.prototype.includes
includes(text, k) ==
    \E at \in 0..(Len(text) - Len(k)) : SubSeq(text, at + 1, at + Len(k)) = k

\* String.prototype.startsWith
startsWith(str, prefix) ==
    Len(prefix) <= Len(str) /\ SubSeq(str, 1, Len(prefix)) = prefix

\* ------------------------------------------------- engine: filtering helpers
\* an optional value is <<>> (undefined) or <<value>>
\* applySourceFilters(hits, filters)
applySourceFilters_PrefixOnly(hits, filters) ==
    IF filters = <<>> THEN hits
    ELSE LET prefix == filters[1].sourcePrefix
         IN  SelectSeq(hits, LAMBDA h :
                 (prefix # <<>> /\ prefix[1] # "") => startsWith(h.item.source, prefix[1]))

applySourceFilters(hits, filters) ==
    IF filters = <<>> THEN hits
    ELSE LET allowSources == filters[1].sources
             prefix       == filters[1].sourcePrefix
         IN  SelectSeq(hits, LAMBDA h :
                 /\ allowSources # <<>> => Includes(allowSources[1], h.item.source)
                 /\ (prefix # <<>> /\ prefix[1] # "") => startsWith(h.item.source, prefix[1]))

\* the test of the filter callback of applyMustInclude
KeywordsMatch_AlwaysAny(text, kws, mustIncludeMode) ==
    \E j \in DOMAIN kws : includes(text, kws[j])

KeywordsMatch(text, kws, mustIncludeMode) ==
    IF mustIncludeMode = "any"
    THEN \E j \in DOMAIN kws : includes(text, kws[j])
    ELSE \A j \in DOMAIN kws : includes(text, kws[j])

\* mustInclude.map((k) => String(k).toLowerCase()).filter(Boolean)
Kws(list) ==
    SelectSeq([j \in 1..Len(list) |-> toLowerCase(list[j])], LAMBDA k : k # "")

\* applyMustInclude(hits, mustInclude, mustIncludeMode)
applyMustInclude(hits, mustInclude, mustIncludeMode) ==
    IF mustInclude = <<>> \/ Len(mustInclude[1]) = 0 THEN hits
    ELSE LET kws == Kws(mustInclude[1])
         IN  IF Len(kws) = 0 THEN hits
             ELSE SelectSeq(hits, LAMBDA h :
                      KeywordsMatch(toLowerCase(h.item.content), kws, mustIncludeMode))

\* ---------------------------------------------- engine: diversity selection
RatMul(a, b) == Rat(a.n * b.n, a.d * b.d)

\* dot(a, b) of two unit embeddings: the cosine of the two embedded texts
\* (the embedding service decides it; 1 for the same text)
Cosine(t, u) ==
    IF t = u THEN One
    ELSE IF {t, u} = {"refund policy applies", "Partial REFUND policy"} THEN Rat(4, 5)
    ELSE IF {t, u} = {"refund policy applies", "refund policy applied"} THEN Rat(9, 10)
    ELSE Zero

dot(a, b) == Cosine(a[2], b[2])

lambda == Rat(4, 5)

\* a threshold of 0
minKeep_Zero == Zero

minKeep == Rat(1, 10)

\* the similarity to the hit picked last only
MaxSimToPicked_Last(h, pickedEmbeds) ==
    IF pickedEmbeds = <<>> THEN Zero
    ELSE LET sim == dot(h.item.embeddingUnit, pickedEmbeds[Len(pickedEmbeds)])
         IN  IF RatLess(Zero, sim) THEN sim ELSE Zero

\* let maxSimToPicked = 0; for (const pe of pickedEmbeds) ...
RECURSIVE MaxSimToPicked(_, _)
MaxSimToPicked(h, pickedEmbeds) ==
    IF pickedEmbeds = <<>> THEN Zero
    ELSE LET before == MaxSimToPicked(h, SubSeq(pickedEmbeds, 1, Len(pickedEmbeds) - 1))
             sim    == dot(h.item.embeddingUnit, pickedEmbeds[Len(pickedEmbeds)])
         IN  IF RatLess(before, sim) THEN sim ELSE before

\* one pass of the loop of pickDiverse without the test of picked.length
PickStep_NoCap(picked, h, k) ==
    LET pickedEmbeds == [j \in 1..Len(picked) |-> picked[j].item.embeddingUnit]
        mmrScore == RatSub(RatMul(lambda, h.score),
                           RatMul(RatSub(One, lambda), MaxSimToPicked(h, pickedEmbeds)))
    IN  IF Len(picked) = 0 \/ RatLess(minKeep, mmrScore) THEN Append(picked, h) ELSE picked

\* one pass of the loop of pickDiverse (after the break nothing is picked)
PickStep(picked, h, k) ==
    IF Len(picked) >= k THEN picked
    ELSE LET pickedEmbeds == [j \in 1..Len(picked) |-> picked[j].item.embeddingUnit]
             mmrScore == RatSub(RatMul(lambda, h.score),
                                RatMul(RatSub(One, lambda), MaxSimToPicked(h, pickedEmbeds)))
         IN  IF Len(picked) = 0 \/ RatLess(minKeep, mmrScore) THEN Append(picked, h) ELSE picked

\* pickDiverse(hits, { k })
RECURSIVE pickDiverse(_, _)
pickDiverse(hits, k) ==
    IF hits = <<>> THEN <<>>
    ELSE PickStep(pickDiverse(SubSeq(hits, 1, Len(hits) - 1), k), hits[Len(hits)], k)

\* --------------------------------------------------- engine: context block
\* the header of the block of one selected hit: [source: <source>#<chunkIndex>]
BlockLabel(h) == h.item.source \o "#" \o ToString(h.item.chunkIndex)

RECURSIVE Join(_, _)
Join(parts, sep) ==
    IF parts = <<>> THEN ""
    ELSE IF Len(parts) = 1 THEN parts[1]
    ELSE parts[1] \o sep \o Join(Tail(parts), sep)

\* buildContextBlock(selectedHits)
buildContextBlock(selectedHits) ==
    Join([k \in 1..Len(selectedHits) |->
             "[source: " \o BlockLabel(selectedHits[k]) \o "]\n" \o selectedHits[k].item.content],
         "\n\n---\n\n")

\* sources: selected.map((h) => h.item.id)
ReturnedSources(selected) == [k \in 1..Len(selected) |-> selected[k].item.id]

\* ------------------------------------------------------------- engine: ask
\* hybridSearchMulti as one call: the Maps it can end its loop with, given
\* what the two searches answer for each variant
RECURSIVE BestOf(_, _, _)
BestOf(answers, perQueryTopK, rrfK) ==
    IF answers = <<>> THEN {<<>>}
    ELSE LET a == answers[Len(answers)]
         IN  UNION {{MergeHits(best, hits) :
                        hits \in hybridSearch(a.vector, a.fts, perQueryTopK, rrfK)} :
                      best \in BestOf(SubSeq(answers, 1, Len(answers) - 1), perQueryTopK, rrfK)}

hybridSearchMulti(answers, perQueryTopK, finalTopK, rrfK) ==
    UNION {{Slice(sorted, 0, finalTopK) : sorted \in SortByScore(best)} :
             best \in BestOf(answers, perQueryTopK, rrfK)}

\* Number(process.env.RAG_PER_QUERY_TOPK || 8) in a deployment that sets it to 1
PER_QUERY_TOPK == 1

\* Number(process.env.RAG_FINAL_TOPK || 25) in a deployment that sets it to 1
FINAL_TOPK == 1

Max(a, b) == IF a > b THEN a ELSE b

expandedFinalTopK == Max(FINAL_TOPK * 4, FINAL_TOPK)

expandedPerQueryTopK == Max(PER_QUERY_TOPK * 3, PER_QUERY_TOPK)

MaxContextK == 2

MaxFtsHits == 1

\* the indexed corpus: two chunks of a.md, one of docs/b.md
AskCorpus ==
    <<[source |-> "a.md", content |-> "refund policy applies"],
      [source |-> "a.md", content |-> "Shipping is free"],
      [source |-> "docs/b.md", content |-> "Partial REFUND policy"]>>

AskItems == computeChunkMetaItems(loadAndChunkDocs(AskCorpus))

AskRows == Range(Records(AskItems, embedTexts(Contents_(AskItems))))

\* what the vector search answers for a variant: the nearest rows, each once,
\* nearest first (any row can be the nearest)
AskVectorAnswers ==
    LET all == Records(AskItems, embedTexts(Contents_(AskItems)))
        n   == Min(expandedPerQueryTopK, Len(all))
    IN  {[k \in 1..n |-> WithColumn(all[((k + first - 2) % Len(all)) + 1], "_distance", Zero)] :
            first \in 1..Len(all)}

\* what the full-text search answers for a variant: some rows, each once
AskFtsAnswers ==
    {q \in UNION {[1..n -> {WithColumn(r, "_score", One) : r \in AskRows}] :
                    n \in 0..Min(MaxFtsHits, expandedPerQueryTopK)} :
        \A j, k \in DOMAIN q : j # k => q[j].id # q[k].id}

AskAnswers == [vector : AskVectorAnswers, fts : AskFtsAnswers]

None == <<>>

Some(v) == <<v>>

AskFilters ==
    {None,
     Some([sources |-> Some(<<"a.md">>), sourcePrefix |-> None]),
     Some([sources |-> Some(<<"nonexistent.md">>), sourcePrefix |-> None]),
     Some([sources |-> None, sourcePrefix |-> Some("docs/")])}

AskMustIncludes ==
    {None, Some(<<"refund">>), Some(<<"refund", "partial">>), Some(<<"Shipping", "">>)}

\* the options as normalizeAskPayload hands them on
AskOptions ==
    {o \in [filters : AskFilters, mustInclude : AskMustIncludes, mustIncludeMode : {"all", "any"}] :
        o.mustInclude = None => o.mustIncludeMode = "all"}

NoOptions == [filters |-> None, mustInclude |-> None, mustIncludeMode |-> "all"]

NoMatchAnswer ==
    "I couldn't find relevant passages that match your filters/keywords in the provided documents."

NoAnswer == [answer |-> "", sources |-> <<>>]

\* errors: status and code as the service client sets them, statusCode as
\* ask sets it (0 and "" stand for an absent field)
Error(status, code, message, statusCode) ==
    [status |-> status, code |-> code, message |-> message, statusCode |-> statusCode]

NoError == Error(0, "", "", 0)

\* what the embedding / generation service can fail with, as withRetry rethrows it
ServiceErrors ==
    {Error(429, "insufficient_quota", "You exceeded your current quota", 0),
     Error(429, "", "Monthly Quota reached", 0),
     Error(429, "rate_limit_exceeded", "Rate limit reached for requests", 0),
     Error(503, "", "The server is temporarily overloaded", 0),
     Error(400, "invalid_request_error", "Invalid request", 0)}

\* classifyOpenAIError(err) without the quota test
classifyOpenAIError_NoQuota(err) ==
    LET msg == toLowerCase(err.message)
    IN  [status      |-> err.status,
         code        |-> err.code,
         isQuota     |-> FALSE,
         isRateLimit |-> err.status = 429 /\ (\/ err.code = "rate_limit_exceeded"
                                              \/ includes(msg, "rate limit")
                                              \/ includes(msg, "too many requests")),
         isTransient |-> \/ (err.status >= 500 /\ err.status <= 599)
                         \/ includes(msg, "timeout")
                         \/ includes(msg, "temporarily")]

classifyOpenAIError(err) ==
    LET msg == toLowerCase(err.message)
    IN  [status      |-> err.status,
         code        |-> err.code,
         isQuota     |-> err.status = 429 /\ (\/ err.code = "insufficient_quota"
                                              \/ includes(msg, "quota")),
         isRateLimit |-> err.status = 429 /\ (\/ err.code = "rate_limit_exceeded"
                                              \/ includes(msg, "rate limit")
                                              \/ includes(msg, "too many requests")),
         isTransient |-> \/ (err.status >= 500 /\ err.status <= 599)
                         \/ includes(msg, "timeout")
                         \/ includes(msg, "temporarily")]

\* the errors a request of ask is followed through: quota failures (by code,
\* by message) and a failure that is none
AskErrors ==
    {err \in ServiceErrors : classifyOpenAIError(err).isQuota \/ err.status = 503}

NoQuotaForEmbeddings ==
    Error(0, "", "No API quota for embeddings. Add credits or use local embeddings.", 503)

NoQuotaForAnswering ==
    Error(0, "", "No API quota for answering. Add credits or use a local LLM.", 503)

TableNotFound == Error(0, "", "LanceDB table not found: rag_chunks", 0)

\* what the catch of the embedding step throws for err, without the quota branch
EmbedStepError_Rethrow(err) == err

\* what the catch of the embedding step throws for err
EmbedStepError(err) ==
    IF classifyOpenAIError(err).isQuota THEN NoQuotaForEmbeddings ELSE err

\* what the catch of the answer step throws for err
AnswerStepError(err) ==
    IF classifyOpenAIError(err).isQuota THEN NoQuotaForAnswering ELSE err

\* ------------------------------------------------------ server: POST /ask
IsSpace(c) == c \in {" ", "\t", "\n"}

RECURSIVE trimStart(_)
trimStart(str) ==
    IF Len(str) > 0 /\ IsSpace(SubSeq(str, 1, 1)) THEN trimStart(SubSeq(str, 2, Len(str)))
    ELSE str

RECURSIVE trimEnd(_)
trimEnd(str) ==
    IF Len(str) > 0 /\ IsSpace(SubSeq(str, Len(str), Len(str)))
    THEN trimEnd(SubSeq(str, 1, Len(str) - 1))
    ELSE str

\* String.prototype.trim
trim(str) == trimEnd(trimStart(str))

\* body.question: a JSON value, with its type
Json(type, value) == [type |-> type, value |-> value]

NoQuestion == Json("undefined", "")

RawQuestions ==
    {NoQuestion, Json("number", "42"), Json("string", ""), Json("string", "   "),
     Json("string", " \n\t"), Json("string", "a"), Json("string", " a "),
     Json("string", " what is the refund policy\n")}

\* the test of the handler without the trim
QuestionRejected_NoTrim(q) ==
    \/ q.type = "undefined" \/ q.value = ""
    \/ q.type # "string"
    \/ Len(q.value) < 2

\* !question || typeof question !== "string" || question.trim().length < 2
QuestionRejected(q) ==
    \/ q.type = "undefined" \/ q.value = ""
    \/ q.type # "string"
    \/ Len(trim(q.value)) < 2

BadRequest == Error(0, "", "question is required", 400)

\* ------------------------------------------------------ engine: ask (state)
\* rewrites: what getMultiQueriesCached can return (at most MaxVariants - 1 queries)
Rewrites ==
    {r \in {<<>>, <<"refund rules">>, <<"refund rules", "returns">>} : Len(r) < MaxVariants}

\* hyde: what getHydeCached can return
Hydes == {"", "Refunds are accepted within 30 days."}

\* [question, ...rewrites, hyde].filter(Boolean)
variantTexts(question, rewrites, hyde) ==
    SelectSeq(<<question>> \o rewrites \o <<hyde>>, LAMBDA t : t # "")

\* rewrites after a quota failure of the augmentation, were they kept
RewritesAfterQuota_Kept(rewrites) == rewrites

\* rewrites after a quota failure of the augmentation
RewritesAfterQuota(rewrites) == <<>>

AskLocalsClear ==
    /\ aRaw = NoQuestion
    /\ aQuestion = ""
    /\ aOpts = NoOptions
    /\ aRewrites = <<>>
    /\ aHyde = ""
    /\ aTexts = <<>>
    /\ aCaught = <<>>
    /\ aMerged = <<>>
    /\ aFiltered = <<>>
    /\ aSelected = <<>>
    /\ aCalls = <<>>
    /\ aResult = NoAnswer
    /\ aError = NoError

AskIdle ==
    /\ aTable = FALSE
    /\ aContextK = 1
    /\ aRrfK = 60
    /\ aPc = "off"
    /\ AskLocalsClear

\* initRagEngine: the store is opened (the table may not exist yet), the
\* settings are read from the environment
AskInit ==
    /\ aTable \in BOOLEAN
    /\ aContextK \in 0..MaxContextK
    /\ aRrfK \in RrfKs
    /\ aPc = "idle"
    /\ AskLocalsClear

\* where ask goes once the filters have run over the merged hits
PcAfterFilter_NoShortCircuit(n) == "answer"

PcAfterFilter(n) == IF n = 0 THEN "returned" ELSE "answer"

\* POST /ask: the handler validates body.question and replies 400 or calls
\* engine.ask(question.trim(), { filters, mustInclude, mustIncludeMode })
PostAsk(q, options) ==
    /\ aPc = "idle"
    /\ aRaw' = q
    /\ aOpts' = options
    /\ IF QuestionRejected(q)
       THEN /\ aPc' = "rejected"
            /\ aError' = BadRequest
            /\ aQuestion' = aQuestion
       ELSE /\ aPc' = "augment"
            /\ aError' = aError
            /\ aQuestion' = trim(q.value)
    /\ UNCHANGED <<aCaught, aTable, aContextK, aRrfK, aRewrites, aHyde, aTexts, aMerged, aFiltered,
                   aSelected, aCalls, aResult>>
    /\ UNCHANGED outsideAsk

\* the reply is sent; the locals of the request are gone
AskDone ==
    /\ aPc \in {"returned", "threw", "rejected"}
    /\ aPc' = "idle"
    /\ aRaw' = NoQuestion
    /\ aQuestion' = ""
    /\ aOpts' = NoOptions
    /\ aRewrites' = <<>>
    /\ aHyde' = ""
    /\ aTexts' = <<>>
    /\ aCaught' = <<>>
    /\ aMerged' = <<>>
    /\ aFiltered' = <<>>
    /\ aSelected' = <<>>
    /\ aCalls' = <<>>
    /\ aResult' = NoAnswer
    /\ aError' = NoError
    /\ UNCHANGED <<aTable, aContextK, aRrfK>>
    /\ UNCHANGED outsideAsk

\* ask rejects with err
AskThrow(err) ==
    /\ aPc' = "threw"
    /\ aError' = err
    /\ UNCHANGED <<aTable, aContextK, aRrfK, aOpts, aRaw, aQuestion, aRewrites, aHyde,
                   aTexts, aMerged, aFiltered, aSelected, aResult>>
    /\ UNCHANGED outsideAsk

\* 1) getMultiQueriesCached answered
MultiQueryOk(r) ==
    /\ aPc = "augment"
    /\ aRewrites' = r
    /\ aCalls' = Append(aCalls, "multi-query")
    /\ aPc' = "hyde"
    /\ UNCHANGED <<aCaught, aTable, aContextK, aRrfK, aOpts, aRaw, aQuestion, aHyde, aTexts, aMerged,
                   aFiltered, aSelected, aResult, aError>>
    /\ UNCHANGED outsideAsk

\* 1) getHydeCached answered; variantTexts is built
HydeOk(h) ==
    /\ aPc = "hyde"
    /\ Len(variantTexts(aQuestion, aRewrites, h)) <= MaxVariants
    /\ aHyde' = h
    /\ aTexts' = variantTexts(aQuestion, aRewrites, h)
    /\ aCalls' = Append(aCalls, "hyde")
    /\ aPc' = "embed"
    /\ UNCHANGED <<aCaught, aTable, aContextK, aRrfK, aOpts, aRaw, aQuestion, aRewrites, aMerged,
                   aFiltered, aSelected, aResult, aError>>
    /\ UNCHANGED outsideAsk

\* 1) one of the two augmentation calls rejected with err: on a quota error
\* a warning is logged and rewrites and hyde are emptied, else err is rethrown
AugmentCatch(err) ==
    /\ aPc \in {"augment", "hyde"}
    /\ aCaught' = Append(aCaught, [step |-> IF aPc = "augment" THEN "multi-query" ELSE "hyde",
                                   err  |-> err])
    /\ aCalls' = Append(aCalls, IF aPc = "augment" THEN "multi-query" ELSE "hyde")
                    \o (IF classifyOpenAIError(err).isQuota THEN <<"warnNoQuota">> ELSE <<>>)
    /\ IF classifyOpenAIError(err).isQuota
       THEN /\ aRewrites' = RewritesAfterQuota(aRewrites)
            /\ aHyde' = ""
            /\ aTexts' = variantTexts(aQuestion, RewritesAfterQuota(aRewrites), "")
            /\ aPc' = "embed"
            /\ aError' = aError
       ELSE /\ aPc' = "threw"
            /\ aError' = err
            /\ UNCHANGED <<aRewrites, aHyde, aTexts>>
    /\ UNCHANGED <<aTable, aContextK, aRrfK, aOpts, aRaw, aQuestion, aMerged, aFiltered,
                   aSelected, aResult>>
    /\ UNCHANGED outsideAsk

\* 2) embedTextsCached answered
EmbedVariantsOk ==
    /\ aPc = "embed"
    /\ aCalls' = Append(aCalls, "embed")
    /\ aPc' = "retrieve"
    /\ UNCHANGED <<aCaught, aTable, aContextK, aRrfK, aOpts, aRaw, aQuestion, aRewrites, aHyde,
                   aTexts, aMerged, aFiltered, aSelected, aResult, aError>>
    /\ UNCHANGED outsideAsk

\* 2) embedTextsCached rejected with err
EmbedVariantsFail(err) ==
    /\ aPc = "embed"
    /\ aCaught' = Append(aCaught, [step |-> "embed", err |-> err])
    /\ aCalls' = Append(aCalls, "embed")
    /\ AskThrow(EmbedStepError(err))

\* 3) store.hybridSearchMulti with the expanded limits
Retrieve ==
    /\ aPc = "retrieve"
    /\ aCalls' = Append(aCalls, "hybridSearchMulti")
    /\ aCaught' = aCaught
    /\ IF aTable
       THEN /\ \E answers \in [1..Len(aTexts) -> AskAnswers] :
                  aMerged' \in hybridSearchMulti(answers, expandedPerQueryTopK,
                                                 expandedFinalTopK, aRrfK)
            /\ aPc' = "filter"
            /\ UNCHANGED <<aTable, aContextK, aRrfK, aOpts, aRaw, aQuestion, aRewrites,
                           aHyde, aTexts, aFiltered, aSelected, aResult, aError>>
            /\ UNCHANGED outsideAsk
       ELSE AskThrow(TableNotFound)

\* 4) applySourceFilters, applyMustInclude, the empty short circuit,
\* 5) pickDiverse, 6) buildContextBlock
FilterAndSelect ==
    /\ aPc = "filter"
    /\ LET filtered == applyMustInclude(applySourceFilters(aMerged, aOpts.filters),
                                        aOpts.mustInclude, aOpts.mustIncludeMode)
           next     == PcAfterFilter(Len(filtered))
       IN  /\ aFiltered' = filtered
           /\ aPc' = next
           /\ IF next = "returned"
              THEN /\ aResult' = [answer |-> NoMatchAnswer, sources |-> <<>>]
                   /\ aSelected' = <<>>
              ELSE /\ aSelected' = pickDiverse(filtered, aContextK)
                   /\ aResult' = aResult
    /\ UNCHANGED <<aCaught, aTable, aContextK, aRrfK, aOpts, aRaw, aQuestion, aRewrites, aHyde,
                   aTexts, aMerged, aCalls, aError>>
    /\ UNCHANGED outsideAsk

\* 7) answerWithContextCached answered
AnswerOk ==
    /\ aPc = "answer"
    /\ aCalls' = Append(aCalls, "answer")
    /\ aPc' = "persist"
    /\ UNCHANGED <<aCaught, aTable, aContextK, aRrfK, aOpts, aRaw, aQuestion, aRewrites, aHyde,
                   aTexts, aMerged, aFiltered, aSelected, aResult, aError>>
    /\ UNCHANGED outsideAsk

\* 7) answerWithContextCached rejected with err
AnswerFail(err) ==
    /\ aPc = "answer"
    /\ aCaught' = Append(aCaught, [step |-> "answer", err |-> err])
    /\ aCalls' = Append(aCalls, "answer")
    /\ AskThrow(AnswerStepError(err))

\* persistCaches (never rejects), then return { answer, sources }
PersistAndReturn ==
    /\ aPc = "persist"
    /\ aCalls' = Append(aCalls, "persistCaches")
    /\ aResult' = [answer  |-> "generated",
                   sources |-> ReturnedSources(aSelected)]
    /\ aPc' = "returned"
    /\ UNCHANGED <<aCaught, aTable, aContextK, aRrfK, aOpts, aRaw, aQuestion, aRewrites, aHyde,
                   aTexts, aMerged, aFiltered, aSelected, aError>>
    /\ UNCHANGED outsideAsk

AskNext ==
    \/ \E q \in RawQuestions, options \in AskOptions : PostAsk(q, options)
    \/ AskDone
    \/ \E r \in Rewrites : MultiQueryOk(r)
    \/ \E h \in Hydes : HydeOk(h)
    \/ \E err \in AskErrors : AugmentCatch(err)
    \/ EmbedVariantsOk
    \/ \E err \in AskErrors : EmbedVariantsFail(err)
    \/ Retrieve
    \/ FilterAndSelect
    \/ AnswerOk
    \/ \E err \in AskErrors : AnswerFail(err)
    \/ PersistAndReturn

\* ------------------------------------------------------- engine: withRetry
maxRetries == 4

\* what fn() can reject with: the service errors and a 429 that speaks of
\* both the rate limit and the quota
RetryErrors ==
    ServiceErrors \cup {Error(429, "", "Rate limit: too many requests for your quota", 0)}

RECURSIVE Pow2(_)
Pow2(n) == IF n = 0 THEN 1 ELSE 2 * Pow2(n - 1)

\* Math.floor(Math.random() * 250): the least and the greatest value
Jitters == {0, 249}

\* Math.min(8000, 500 * 2 ** attempt) + jitter
backoffMs(attempt, jitter) == Min(8000, 500 * Pow2(attempt)) + jitter

\* what the catch block does with err, were every 429 retried
RetryDecision_RetryAll429(err, attempt) ==
    LET info == classifyOpenAIError(err)
    IN  IF (err.status = 429 \/ info.isTransient) /\ attempt < maxRetries
        THEN "retry" ELSE "throw"

\* what the catch block does with err, were the test attempt > maxRetries
RetryDecision_OneMore(err, attempt) ==
    LET info     == classifyOpenAIError(err)
        canRetry == info.isRateLimit \/ info.isTransient
    IN  IF info.isQuota THEN "throw"
        ELSE IF ~canRetry \/ attempt > maxRetries THEN "throw"
        ELSE "retry"

\* what the catch block of withRetry does with err
RetryDecision(err, attempt) ==
    LET info     == classifyOpenAIError(err)
        canRetry == info.isRateLimit \/ info.isTransient
    IN  IF info.isQuota THEN "throw"
        ELSE IF ~canRetry \/ attempt >= maxRetries THEN "throw"
        ELSE "retry"

RetryIdle ==
    /\ wPc = "off"
    /\ wAttempt = 0
    /\ wFailures = <<>>
    /\ wWaits = <<>>
    /\ wThrown = NoError

\* withRetry(fn) is called
RetryInit ==
    /\ wPc = "call"
    /\ wAttempt = 0
    /\ wFailures = <<>>
    /\ wWaits = <<>>
    /\ wThrown = NoError

\* fn() resolved: its value is returned
FnOk ==
    /\ wPc = "call"
    /\ wPc' = "returned"
    /\ UNCHANGED <<wAttempt, wFailures, wWaits, wThrown>>
    /\ UNCHANGED outsideRetry

\* fn() rejected with err: rethrow, or compute the backoff and sleep
FnFail(err, jitter) ==
    /\ wPc = "call"
    /\ wFailures' = Append(wFailures, err)
    /\ IF RetryDecision(err, wAttempt) = "throw"
       THEN /\ wPc' = "threw"
            /\ wThrown' = err
            /\ wWaits' = wWaits
       ELSE /\ wPc' = "backoff"
            /\ wThrown' = wThrown
            /\ wWaits' = Append(wWaits, backoffMs(wAttempt, jitter))
    /\ UNCHANGED wAttempt
    /\ UNCHANGED outsideRetry

\* the timer fired: attempt++ and the loop calls fn() again
BackoffDone ==
    /\ wPc = "backoff"
    /\ wAttempt' = wAttempt + 1
    /\ wPc' = "call"
    /\ UNCHANGED <<wFailures, wWaits, wThrown>>
    /\ UNCHANGED outsideRetry

RetryNext ==
    \/ FnOk
    \/ \E err \in RetryErrors, jitter \in Jitters : FnFail(err, jitter)
    \/ BackoffDone

\* ------------------------------------------- engine: caches and write queue
MaxRequests == 2

Requests == 1..MaxRequests

\* the cache keys of one question: hyde:<model>:<hash>, emb:<model>:<hash>,
\* ans:<model>:<hash>:<hash of the context>
CacheKeys == {"hyde", "emb", "ans"}

\* what the service can answer for a key: generation is sampled (temperature
\* 0.3 and 0.2) and may come back empty, the embedding of a text is one vector
ServiceValues(key) ==
    CASE key = "hyde" -> {"", "Refunds are accepted within 30 days."}
      [] key = "emb"  -> {"unit vector"}
      [] key = "ans"  -> {"Refunds take 30 days.", "You can get a refund within 30 days."}

NoEntry == <<>>

\* if (cache[key]): the key is present and its value is not falsy
Truthy(entry) == entry # NoEntry /\ entry[1] # ""

CacheFiles == <<"embeddings.json", "augment.json", "answers.json">>

\* the key held by the n-th file persistCaches writes
KeyOfFile(n) == CASE n = 1 -> "emb" [] n = 2 -> "hyde" [] n = 3 -> "ans"

\* the step of a cached call that awaits the service
Awaiting(key) ==
    CASE key = "hyde" -> "await hyde" [] key = "emb" -> "await emb" [] key = "ans" -> "await ans"

\* the step after the cached call of a key
AfterCached(key) ==
    CASE key = "hyde" -> "emb" [] key = "emb" -> "retrieve" [] key = "ans" -> "persist"

Task(r) == [req |-> r, status |-> "queued", written |-> 0]

\* the promise of a task is settled
Settled(t) == t.status \in {"done", "failed", "skipped"}

\* how the promise of a settled task settles, without the .catch(() => {})
ChainOutcome_NoCatch(t) == IF t.status = "done" THEN "fulfilled" ELSE "rejected"

\* how the promise of a settled task settles: cacheWriteChain.then(fn).catch(() => {})
ChainOutcome(t) == "fulfilled"

\* the k-th task may be looked at by the chain, were fn called at once
ChainReady_NoChain(tasks, k) == TRUE

\* the k-th task may be looked at by the chain: the promise before it is settled
ChainReady(tasks, k) == IF k = 1 THEN TRUE ELSE Settled(tasks[k - 1])

CacheIdle ==
    /\ cMem = [key \in CacheKeys |-> NoEntry]
    /\ cDisk = [key \in CacheKeys |-> NoEntry]
    /\ cPc = [r \in Requests |-> "off"]
    /\ cOut = [r \in Requests |-> "none"]
    /\ cTasks = <<>>

\* initRagEngine on a fresh installation: empty caches, resolved chain
CacheInit ==
    /\ cMem = [key \in CacheKeys |-> NoEntry]
    /\ cDisk = [key \in CacheKeys |-> NoEntry]
    /\ cPc = [r \in Requests |-> "idle"]
    /\ cOut = [r \in Requests |-> "none"]
    /\ cTasks = <<>>

\* ask is called
CacheAsk(r) ==
    /\ cPc[r] = "idle"
    /\ cPc' = [cPc EXCEPT ![r] = "hyde"]
    /\ UNCHANGED <<cMem, cDisk, cOut, cTasks>>
    /\ UNCHANGED outsideCache

\* a cached call tests its key: a hit returns the entry, a miss calls the service
CacheLookup(r) ==
    /\ cPc[r] \in CacheKeys
    /\ cPc' = [cPc EXCEPT ![r] = IF Truthy(cMem[cPc[r]]) THEN AfterCached(cPc[r])
                                  ELSE Awaiting(cPc[r])]
    /\ UNCHANGED <<cMem, cDisk, cOut, cTasks>>
    /\ UNCHANGED outsideCache

\* the service answered: cache[key] = value
ServiceAnswers(r, key, v) ==
    /\ cPc[r] = Awaiting(key)
    /\ cMem' = [cMem EXCEPT ![key] = <<v>>]
    /\ cPc' = [cPc EXCEPT ![r] = AfterCached(key)]
    /\ UNCHANGED <<cDisk, cOut, cTasks>>
    /\ UNCHANGED outsideCache

\* the service failed: ask goes on without hyde on a quota failure of the
\* augmentation, and rejects otherwise
ServiceFails(r, key, quota) ==
    /\ cPc[r] = Awaiting(key)
    /\ IF key = "hyde" /\ quota
       THEN cPc' = [cPc EXCEPT ![r] = AfterCached(key)] /\ cOut' = cOut
       ELSE cPc' = [cPc EXCEPT ![r] = "done"] /\ cOut' = [cOut EXCEPT ![r] = "error"]
    /\ UNCHANGED <<cMem, cDisk, cTasks>>
    /\ UNCHANGED outsideCache

\* retrieval and filters: no candidate is left (ask returns at once) or some are
CacheRetrieve(r, empty) ==
    /\ cPc[r] = "retrieve"
    /\ IF empty
       THEN cPc' = [cPc EXCEPT ![r] = "done"] /\ cOut' = [cOut EXCEPT ![r] = "noMatch"]
       ELSE cPc' = [cPc EXCEPT ![r] = "ans"] /\ cOut' = cOut
    /\ UNCHANGED <<cMem, cDisk, cTasks>>
    /\ UNCHANGED outsideCache

\* persistCaches: queueCacheWrite(fn) appends a task to the chain
Persist(r) ==
    /\ cPc[r] = "persist"
    /\ cTasks' = Append(cTasks, Task(r))
    /\ cPc' = [cPc EXCEPT ![r] = "flush"]
    /\ UNCHANGED <<cMem, cDisk, cOut>>
    /\ UNCHANGED outsideCache

\* the chain reaches the k-th task: fn starts, or is passed over when the
\* promise before it is rejected
TaskStart(k) ==
    /\ k \in DOMAIN cTasks
    /\ cTasks[k].status = "queued"
    /\ ChainReady(cTasks, k)
    /\ cTasks' = [cTasks EXCEPT ![k].status =
                      IF k = 1 \/ ChainOutcome(cTasks[k - 1]) = "fulfilled"
                      THEN "running" ELSE "skipped"]
    /\ UNCHANGED <<cMem, cDisk, cPc, cOut>>
    /\ UNCHANGED outsideCache

\* writeJson of the next file: the cache as it is now is written
TaskWrite(k) ==
    /\ k \in DOMAIN cTasks
    /\ cTasks[k].status = "running"
    /\ LET n   == cTasks[k].written + 1
           key == KeyOfFile(n)
       IN  /\ cDisk' = [cDisk EXCEPT ![key] = cMem[key]]
           /\ cTasks' = [cTasks EXCEPT ![k].written = n,
                                       ![k].status = IF n = Len(CacheFiles) THEN "done"
                                                     ELSE "running"]
    /\ UNCHANGED <<cMem, cPc, cOut>>
    /\ UNCHANGED outsideCache

\* writeJson rejects (mkdir or writeFile fails): fn rejects
TaskWriteFails(k) ==
    /\ k \in DOMAIN cTasks
    /\ cTasks[k].status = "running"
    /\ cTasks' = [cTasks EXCEPT ![k].status = "failed"]
    /\ UNCHANGED <<cMem, cDisk, cPc, cOut>>
    /\ UNCHANGED outsideCache

\* await persistCaches() settles: ask returns { answer, sources }, or rejects
CacheReturn(r) ==
    /\ cPc[r] = "flush"
    /\ \E k \in DOMAIN cTasks :
          /\ cTasks[k].req = r
          /\ Settled(cTasks[k])
          /\ cOut' = [cOut EXCEPT ![r] = IF ChainOutcome(cTasks[k]) = "fulfilled"
                                         THEN "answer" ELSE "error"]
    /\ cPc' = [cPc EXCEPT ![r] = "done"]
    /\ UNCHANGED <<cMem, cDisk, cTasks>>
    /\ UNCHANGED outsideCache

CacheNext ==
    \/ \E r \in Requests : CacheAsk(r)
    \/ \E r \in Requests : CacheLookup(r)
    \/ \E r \in Requests, key \in CacheKeys : \E v \in ServiceValues(key) : ServiceAnswers(r, key, v)
    \/ \E r \in Requests, key \in CacheKeys, quota \in BOOLEAN : ServiceFails(r, key, quota)
    \/ \E r \in Requests, empty \in BOOLEAN : CacheRetrieve(r, empty)
    \/ \E r \in Requests : Persist(r)
    \/ \E k \in 1..MaxRequests : TaskStart(k)
    \/ \E k \in 1..MaxRequests : TaskWrite(k)
    \/ \E k \in 1..MaxRequests : TaskWriteFails(k)
    \/ \E r \in Requests : CacheReturn(r)

\* ------------------------------------------- LanceVectorStore: method calls
\* the record batches a caller passes to overwrite and add
StoreBatches == UNION {[1..n -> AskRows] : n \in 1..MaxBatch}

NoCall == [op |-> "none", wasCreated |-> FALSE, records |-> <<>>, variants |-> 0, threw |-> ""]

\* the outcome of a method call: wasCreated tells whether the store had its
\* table when the method was called, records and variants what it was given
\* (the records, the number of query variants), threw the message of the
\* error thrown
MethodCall(op, records, variants, threw) ==
    [op |-> op, wasCreated |-> sTable \/ sExists, records |-> records,
     variants |-> variants, threw |-> threw]

\* the backend is asked without the test of this.table
TableGuard_NoCheck == IF ~sExists THEN "backend error" ELSE ""

\* if (!this.table) throw new Error(`LanceDB table not found: ...`), else the
\* backend is asked, which rejects when the table is gone
TableGuard == IF ~sTable THEN TableNotFound.message
              ELSE IF ~sExists THEN "backend error" ELSE ""

StoreIdle ==
    /\ sExists = FALSE
    /\ sRows = EmptyBag
    /\ sTable = FALSE
    /\ sLast = NoCall

\* LanceVectorStore.init on a database without the table: table = null
StoreInit == StoreIdle

\* overwrite(records): dropTable (errors ignored), then createTable
StoreOverwrite(records) ==
    /\ WithinRows(BagOfSeq(records))
    /\ sExists' = TRUE
    /\ sRows' = BagOfSeq(records)
    /\ sTable' = TRUE
    /\ sLast' = MethodCall("overwrite", records, 0, "")
    /\ UNCHANGED outsideStore

\* overwrite(records) when createTable rejects: the table is dropped,
\* this.table is left as it was
StoreOverwriteFail(records) ==
    /\ sExists' = FALSE
    /\ sRows' = EmptyBag
    /\ sTable' = sTable
    /\ sLast' = MethodCall("overwrite", records, 0, "backend error")
    /\ UNCHANGED outsideStore

\* add(records): createTable on a store without table, table.add otherwise
StoreAdd(records) ==
    /\ IF ~sTable
       THEN IF sExists
            THEN /\ UNCHANGED <<sExists, sRows, sTable>>
                 /\ sLast' = MethodCall("add", records, 0, "backend error")
            ELSE /\ sExists' = TRUE
                 /\ sRows' = BagOfSeq(records)
                 /\ sTable' = TRUE
                 /\ sLast' = MethodCall("add", records, 0, "")
       ELSE IF sExists
            THEN /\ WithinRows(TableAdd(sRows, records))
                 /\ sRows' = TableAdd(sRows, records)
                 /\ UNCHANGED <<sExists, sTable>>
                 /\ sLast' = MethodCall("add", records, 0, "")
            ELSE /\ UNCHANGED <<sExists, sRows, sTable>>
                 /\ sLast' = MethodCall("add", records, 0, "backend error")
    /\ UNCHANGED outsideStore

\* reload(): this.table = await conn.openTable(...)
StoreReload ==
    /\ sTable' = (sTable \/ sExists)
    /\ sLast' = MethodCall("reload", <<>>, 0, IF sExists THEN "" ELSE "backend error")
    /\ UNCHANGED <<sExists, sRows>>
    /\ UNCHANGED outsideStore

\* ensureIndexes, vectorSearch, ftsSearch: guarded by if (!this.table);
\* hybridSearch awaits vectorSearch and ftsSearch and rejects when they do
StoreGuarded(op) ==
    /\ sLast' = MethodCall(op, <<>>, 0, TableGuard)
    /\ UNCHANGED <<sExists, sRows, sTable>>
    /\ UNCHANGED outsideStore

\* hybridSearchMulti: one hybridSearch per variant, none for no variant
StoreHybridSearchMulti(n) ==
    /\ sLast' = MethodCall("hybridSearchMulti", <<>>, n, IF n = 0 THEN "" ELSE TableGuard)
    /\ UNCHANGED <<sExists, sRows, sTable>>
    /\ UNCHANGED outsideStore

\* store.deleteByIds(ids)
StoreDeleteByIds(ids) ==
    /\ LET r == CallDeleteByIds(sRows, ids)
       IN  /\ sRows' = r.rows
           /\ sLast' = MethodCall("deleteByIds", <<>>, 0,
                               IF r.threw THEN "TypeError"
                               ELSE IF ~sTable THEN TableNotFound.message ELSE "")
    /\ UNCHANGED <<sExists, sTable>>
    /\ UNCHANGED outsideStore

StoreNext ==
    \/ \E records \in StoreBatches : StoreOverwrite(records)
    \/ \E records \in StoreBatches : StoreOverwriteFail(records)
    \/ \E records \in StoreBatches : StoreAdd(records)
    \/ StoreReload
    \/ \E op \in {"ensureIndexes", "vectorSearch", "ftsSearch", "hybridSearch"} : StoreGuarded(op)
    \/ \E n \in 0..MaxVariants : StoreHybridSearchMulti(n)
    \/ \E ids \in {<<>>} \cup {<<r.id>> : r \in AskRows} : StoreDeleteByIds(ids)

\* ------------------------------------------------- pickDiverse on its own
PickKs == 0..(MaxContextK + 1)

PickRrfKs == {1, 15, 60}

PickScores == {One, Rat(1, 2), Rat(1, 4), Rat(1, 8)}

\* candidate lists as ask hands them over: hits of different records, best
\* score first
PickLists ==
    {q \in UNION {[1..n -> [item : {Item(r) : r \in AskRows}, score : PickScores]] :
                    n \in 0..(MaxContextK + 1)} :
        /\ \A j \in 1..(Len(q) - 1) : ~RatLess(q[j].score, q[j + 1].score)
        /\ \A j, k \in DOMAIN q : j # k => q[j].item.id # q[k].item.id}

PickIdle ==
    /\ pdHits = <<>>
    /\ pdK = 0
    /\ pdRrfK = 0
    /\ pdI = 0
    /\ pdPicked = <<>>
    /\ pdPc = "off"

PickInit ==
    /\ pdHits = <<>>
    /\ pdK = 0
    /\ pdRrfK = 0
    /\ pdI = 0
    /\ pdPicked = <<>>
    /\ pdPc = "idle"

\* pickDiverse(filtered, { k }) as ask calls it: the hits come from
\* hybridSearchMulti and the source filters
PickAfterSearch(answers, rrfK, filters, k) ==
    /\ pdPc = "idle"
    /\ \E merged \in hybridSearchMulti(answers, expandedPerQueryTopK, expandedFinalTopK, rrfK) :
          pdHits' = applySourceFilters(merged, filters)
    /\ pdK' = k
    /\ pdRrfK' = rrfK
    /\ pdI' = 0
    /\ pdPicked' = <<>>
    /\ pdPc' = "loop"
    /\ UNCHANGED outsidePick

\* pickDiverse(hits, { k }) on a list of scored hits
PickCall(hits, k) ==
    /\ pdPc = "idle"
    /\ pdHits' = hits
    /\ pdK' = k
    /\ pdRrfK' = 0
    /\ pdI' = 0
    /\ pdPicked' = <<>>
    /\ pdPc' = "loop"
    /\ UNCHANGED outsidePick

\* one pass of for (const h of hits): break, or look at h
PickIterate ==
    /\ pdPc = "loop"
    /\ pdI < Len(pdHits)
    /\ IF Len(pdPicked) >= pdK
       THEN pdPc' = "done" /\ UNCHANGED <<pdI, pdPicked>>
       ELSE /\ pdPicked' = PickStep(pdPicked, pdHits[pdI + 1], pdK)
            /\ pdI' = pdI + 1
            /\ pdPc' = pdPc
    /\ UNCHANGED <<pdHits, pdK, pdRrfK>>
    /\ UNCHANGED outsidePick

\* the hits are exhausted: return picked
PickReturn ==
    /\ pdPc = "loop"
    /\ pdI = Len(pdHits)
    /\ pdPc' = "done"
    /\ UNCHANGED <<pdHits, pdK, pdRrfK, pdI, pdPicked>>
    /\ UNCHANGED outsidePick

\* the caller has the result; the next call can come
PickDone ==
    /\ pdPc = "done"
    /\ pdHits' = <<>>
    /\ pdK' = 0
    /\ pdRrfK' = 0
    /\ pdI' = 0
    /\ pdPicked' = <<>>
    /\ pdPc' = "idle"
    /\ UNCHANGED outsidePick

PickNext ==
    \/ \E n \in 1..MaxVariants : \E answers \in [1..n -> AskAnswers] :
          \E rrfK \in PickRrfKs, filters \in AskFilters, k \in PickKs :
             PickAfterSearch(answers, rrfK, filters, k)
    \/ \E hits \in PickLists, k \in PickKs : PickCall(hits, k)
    \/ PickIterate
    \/ PickReturn
    \/ PickDone

\* ------------------------------------------------ engine: embedTextsCached
\* String.prototype.charCodeAt for the letters a to z
charCodeAt(c) ==
    CASE c = "a" -> 97  [] c = "b" -> 98  [] c = "c" -> 99  [] c = "d" -> 100
      [] c = "e" -> 101 [] c = "f" -> 102 [] c = "g" -> 103 [] c = "h" -> 104
      [] c = "i" -> 105 [] c = "j" -> 106 [] c = "k" -> 107 [] c = "l" -> 108
      [] c = "m" -> 109 [] c = "n" -> 110 [] c = "o" -> 111 [] c = "p" -> 112
      [] c = "q" -> 113 [] c = "r" -> 114 [] c = "s" -> 115 [] c = "t" -> 116
      [] c = "u" -> 117 [] c = "v" -> 118 [] c = "w" -> 119 [] c = "x" -> 120
      [] c = "y" -> 121 [] c = "z" -> 122

\* a ^ b on numbers below 256
RECURSIVE BitXor(_, _)
BitXor(a, b) ==
    IF a = 0 /\ b = 0 THEN 0
    ELSE (((a % 2) + (b % 2)) % 2) + (2 * BitXor(a \div 2, b \div 2))

\* a 32-bit number is kept as its two 16-bit halves
\* h ^= s.charCodeAt(i); h = Math.imul(h, 16777619), 16777619 = 2^24 + 403
FnvStep(h, code) ==
    LET lo   == (h.lo - (h.lo % 256)) + BitXor(h.lo % 256, code)
        low  == lo * 403
    IN  [hi |-> ((h.hi * 403) + (low \div 65536) + ((lo % 256) * 256)) % 65536,
         lo |-> low % 65536]

\* the loop of hashKey from h = 2166136261 = 0x811C9DC5
RECURSIVE Fnv(_)
Fnv(str) ==
    IF Len(str) = 0 THEN [hi |-> 33052, lo |-> 40389]
    ELSE FnvStep(Fnv(SubSeq(str, 1, Len(str) - 1)),
                 charCodeAt(SubSeq(str, Len(str), Len(str))))

HexDigit(d) == SubSeq("0123456789abcdef", d + 1, d + 1)

\* Number.prototype.toString(16)
RECURSIVE Hex(_)
Hex(n) == IF n < 16 THEN HexDigit(n) ELSE Hex(n \div 16) \o HexDigit(n % 16)

\* a 16-bit half as four hex digits
Hex4(n) ==
    HexDigit(n \div 4096) \o HexDigit((n \div 256) % 16) \o HexDigit((n \div 16) % 16)
        \o HexDigit(n % 16)

\* hashKey taking the text itself for its hash
hashKey_Text(str) == str

\* hashKey(s): (h >>> 0).toString(16)
hashKey(str) ==
    LET h == Fnv(str)
    IN  IF h.hi = 0 THEN Hex(h.lo) ELSE Hex(h.hi) \o Hex4(h.lo)

\* `emb:${EMBED_MODEL}:${hashKey(t)}`
EmbedKey(t) == "emb:text-embedding-3-small:" \o hashKey(t)

\* the texts ask can send: questions, rewrites, hyde texts
EmbedTexts == {"gtbxq", "yicrg", "refund"}

EmbedKeys == {EmbedKey(t) : t \in EmbedTexts}

EmbedIdle ==
    /\ eCache = [key \in EmbedKeys |-> NoEntry]
    /\ eTexts = <<>>
    /\ eMissIndexes = <<>>
    /\ eSent = <<>>
    /\ eOut = <<>>
    /\ ePc = "off"

\* an engine with an empty embedding cache
EmbedInit ==
    /\ eCache = [key \in EmbedKeys |-> NoEntry]
    /\ eTexts = <<>>
    /\ eMissIndexes = <<>>
    /\ eSent = <<>>
    /\ eOut = <<>>
    /\ ePc = "idle"

\* the indexes i (0-based) of texts with !embedCache[keys[i]], in order
RECURSIVE MissIndexes(_, _)
MissIndexes(texts, cache) ==
    IF texts = <<>> THEN <<>>
    ELSE LET before == MissIndexes(SubSeq(texts, 1, Len(texts) - 1), cache)
         IN  IF cache[EmbedKey(texts[Len(texts)])] = NoEntry
             THEN Append(before, Len(texts) - 1) ELSE before

\* vectors.forEach((v, j) => { embedCache[keys[missIndexes[j]]] = v; })
RECURSIVE StoreVectors(_, _, _, _)
StoreVectors(cache, texts, missIndexes, vecs) ==
    IF vecs = <<>> THEN cache
    ELSE LET n      == Len(vecs)
             before == StoreVectors(cache, texts, missIndexes, SubSeq(vecs, 1, n - 1))
         IN  [before EXCEPT ![EmbedKey(texts[missIndexes[n] + 1])] = <<vecs[n]>>]

\* keys.map((k) => embedCache[k])
CachedVectors(texts, cache) == [k \in 1..Len(texts) |-> cache[EmbedKey(texts[k])][1]]

\* embedTextsCached(texts): the keys and the misses; with no miss it returns
\* the cached vecs, otherwise embedTexts(misses) is called
EmbedCall(texts) ==
    /\ ePc = "idle"
    /\ eTexts' = texts
    /\ eSent' = <<>>
    /\ LET missIndexes == MissIndexes(texts, eCache)
       IN  /\ eMissIndexes' = missIndexes
           /\ IF missIndexes = <<>>
              THEN ePc' = "returned" /\ eOut' = CachedVectors(texts, eCache)
              ELSE ePc' = "await" /\ eOut' = <<>>
    /\ UNCHANGED eCache
    /\ UNCHANGED outsideEmbed

\* embedTexts(misses) resolved: the vecs are stored and the vecs of all
\* keys returned
EmbedResolved ==
    /\ ePc = "await"
    /\ LET misses  == [j \in 1..Len(eMissIndexes) |-> eTexts[eMissIndexes[j] + 1]]
           vecs == embedTexts(misses)
           cache   == StoreVectors(eCache, eTexts, eMissIndexes, vecs)
       IN  /\ eSent' = Append(eSent, misses)
           /\ eCache' = cache
           /\ eOut' = CachedVectors(eTexts, cache)
    /\ ePc' = "returned"
    /\ UNCHANGED <<eTexts, eMissIndexes>>
    /\ UNCHANGED outsideEmbed

\* embedTexts(misses) rejected and withRetry gave up
EmbedRejected ==
    /\ ePc = "await"
    /\ eSent' = Append(eSent, [j \in 1..Len(eMissIndexes) |-> eTexts[eMissIndexes[j] + 1]])
    /\ ePc' = "threw"
    /\ UNCHANGED <<eCache, eTexts, eMissIndexes, eOut>>
    /\ UNCHANGED outsideEmbed

\* the caller has the outcome; the cache stays
EmbedDone ==
    /\ ePc \in {"returned", "threw"}
    /\ eTexts' = <<>>
    /\ eMissIndexes' = <<>>
    /\ eSent' = <<>>
    /\ eOut' = <<>>
    /\ ePc' = "idle"
    /\ UNCHANGED eCache
    /\ UNCHANGED outsideEmbed

EmbedNext ==
    \/ \E n \in 1..(MaxVariants + 1) : \E texts \in [1..n -> EmbedTexts] : EmbedCall(texts)
    \/ EmbedResolved
    \/ EmbedRejected
    \/ EmbedDone


\* ---- hybridSearch step by step: the two searches in flight
HybIdle ==
    /\ hVec = <<>>
    /\ hFts = <<>>
    /\ hTopK = 1
    /\ hK = 60
    /\ hIssued = <<>>
    /\ hSettled = <<>>
    /\ hOut = <<>>
    /\ hPc = "idle"

HybInit ==
    /\ hTopK \in 1..MaxTopK
    /\ hVec \in VectorAnswers(hTopK)
    /\ hFts \in FtsAnswers(hTopK)
    /\ hK \in RrfKs
    /\ hIssued = <<>>
    /\ hSettled = <<>>
    /\ hOut = <<>>
    /\ hPc = "ready"

\* a Promise.all that hands the values over in the order the promises settled
PromiseAll_Settled(vHits, fHits, settled) ==
    IF settled[1] = "vector" THEN <<vHits, fHits>> ELSE <<fHits, vHits>>

\* const [vHits, fHits] = await Promise.all([...]): the values in the order
\* of the array, whichever promise settled first
PromiseAll(vHits, fHits, settled) == <<vHits, fHits>>

\* the array literal is evaluated: vectorSearch is called, then ftsSearch,
\* each running up to its first await; then Promise.all is awaited
HybCall ==
    /\ hPc = "ready"
    /\ hIssued' = <<"vector", "fts">>
    /\ hPc' = "await"
    /\ UNCHANGED <<hVec, hFts, hTopK, hK, hSettled, hOut>>
    /\ UNCHANGED outsideHyb

\* the backend answers one of the two searches
HybSettle(name) ==
    /\ hPc = "await"
    /\ name \in Range(hIssued)
    /\ name \notin Range(hSettled)
    /\ hSettled' = Append(hSettled, name)
    /\ UNCHANGED <<hVec, hFts, hTopK, hK, hIssued, hOut, hPc>>
    /\ UNCHANGED outsideHyb

\* one of the two searches rejects: Promise.all rejects, hybridSearch throws
HybReject(name) ==
    /\ hPc = "await"
    /\ name \in Range(hIssued)
    /\ name \notin Range(hSettled)
    /\ hSettled' = Append(hSettled, name)
    /\ hPc' = "threw"
    /\ UNCHANGED <<hVec, hFts, hTopK, hK, hIssued, hOut>>
    /\ UNCHANGED outsideHyb

\* both have answered: rrfFuse(vHits, fHits, { K: rrfK }).slice(0, topK)
HybFuse ==
    /\ hPc = "await"
    /\ Len(hSettled) = 2
    /\ LET all == PromiseAll(vectorSearch(hVec), ftsSearch(hFts), hSettled)
       IN  \E fused \in rrfFuse(all[1], all[2], hK) :
              hOut' = <<Slice(fused, 0, hTopK)>>
    /\ hPc' = "returned"
    /\ UNCHANGED <<hVec, hFts, hTopK, hK, hIssued, hSettled>>
    /\ UNCHANGED outsideHyb

HybNext ==
    \/ HybCall
    \/ \E name \in {"vector", "fts"} : HybSettle(name)
    \/ \E name \in {"vector", "fts"} : HybReject(name)
    \/ HybFuse


\* ---- two incremental buildIndex runs on one store and one manifest
Runs == {1, 2}

\* corpora whose chunks all have different ids
DistinctCorpora ==
    {c \in Corpora :
        LET its == computeChunkMetaItems(loadAndChunkDocs(c))
        IN  \A j, k \in DOMAIN its : its[j].id = its[k].id => j = k}

ItemsOf(c) == computeChunkMetaItems(loadAndChunkDocs(c))

NoRun ==
    [pc |-> "idle", items |-> <<>>, currentIdsSet |-> <<>>, table |-> FALSE,
     previousIdsSet |-> <<>>, toAdd |-> <<>>, toDelete |-> <<>>, i |-> 0,
     vectors |-> <<>>, added |-> 0, result |-> NoResult]

TwoIdle ==
    /\ tExists = FALSE
    /\ tRows = EmptyBag
    /\ tManifest = NoManifest
    /\ tCorpus = <<>>
    /\ tBatch = 1
    /\ tOverlap = FALSE
    /\ tRun = [r \in Runs |-> NoRun]

\* the store and the manifest as an earlier full run over corpus p left
\* them; the corpus is now c
TwoInit ==
    /\ \E p \in DistinctCorpora \ {<<>>} :
          /\ tExists = TRUE
          /\ tRows = BagOfSeq(Records(ItemsOf(p), embedTexts(Contents_(ItemsOf(p)))))
          /\ tManifest = [state |-> "ok", ids |-> computeChunkMetaIdSet(ItemsOf(p))]
    /\ tCorpus \in DistinctCorpora
    /\ tBatch \in 1..MaxBatch
    /\ tOverlap = FALSE
    /\ tRun = [r \in Runs |-> NoRun]

TwoRunning(r) == tRun[r].pc \notin {"idle", "done", "failed"}

TwoAddItems(r) == AddItemsOf(tRun[r].items, tRun[r].toAdd)

\* buildIndex({ mode: "incremental" }) is called: chunks, ids, and the
\* run's own LanceVectorStore.init, which opens the table if there is one
TwoStart(r) ==
    /\ tRun[r].pc = "idle"
    /\ tRun' = [tRun EXCEPT ![r] =
                   [NoRun EXCEPT !.pc = "loadManifest",
                                 !.items = ItemsOf(tCorpus),
                                 !.currentIdsSet = computeChunkMetaIdSet(ItemsOf(tCorpus)),
                                 !.table = tExists]]
    /\ tOverlap' = (tOverlap \/ \E q \in Runs \ {r} : TwoRunning(q))
    /\ UNCHANGED <<tExists, tRows, tManifest, tCorpus, tBatch>>
    /\ UNCHANGED outsideTwo

\* loadManifest and diffManifests
TwoLoadAndDiff(r) ==
    /\ tRun[r].pc = "loadManifest"
    /\ LET previous == loadManifest(tManifest)
           d        == diffManifests(previous, tRun[r].currentIdsSet)
       IN  tRun' = [tRun EXCEPT ![r].previousIdsSet = previous,
                                ![r].toAdd = d.toAdd,
                                ![r].toDelete = d.toDelete,
                                ![r].pc = PcAfterDiff(d.toDelete,
                                                      Len(AddItemsOf(tRun[r].items, d.toAdd)))]
    /\ UNCHANGED <<tExists, tRows, tManifest, tCorpus, tBatch, tOverlap>>
    /\ UNCHANGED outsideTwo

\* try { await store.deleteByIds(toDelete) } catch { logger.warn }
TwoDeleteStep(r) ==
    /\ tRun[r].pc = "delete"
    /\ LET res == CallDeleteByIds(tRows, tRun[r].toDelete)
       IN  /\ tRows' = res.rows
           /\ tRun' = [tRun EXCEPT ![r].pc = LoopEntry(0, Len(TwoAddItems(r)))]
    /\ UNCHANGED <<tExists, tManifest, tCorpus, tBatch, tOverlap>>
    /\ UNCHANGED outsideTwo

\* one pass of the batch loop, up to the await of embedTexts
TwoEmbedBatch(r) ==
    /\ tRun[r].pc = "incEmbed"
    /\ tRun' = [tRun EXCEPT
                   ![r].vectors = embedTexts(Contents_(Slice(TwoAddItems(r), tRun[r].i, tBatch))),
                   ![r].pc = "add"]
    /\ UNCHANGED <<tExists, tRows, tManifest, tCorpus, tBatch, tOverlap>>
    /\ UNCHANGED outsideTwo

\* store.add(records) on the run's own store object: table.add appends;
\* with this.table null it is createTable in mode "create", which the
\* backend refuses when another run has created the table meanwhile
TwoAddBatch(r) ==
    /\ tRun[r].pc = "add"
    /\ LET records == Records(Slice(TwoAddItems(r), tRun[r].i, tBatch), tRun[r].vectors)
           next    == tRun[r].i + tBatch
       IN  IF ~tRun[r].table /\ tExists
           THEN /\ tRun' = [tRun EXCEPT ![r].pc = "failed"]
                /\ UNCHANGED <<tExists, tRows>>
           ELSE /\ tRows' = IF tRun[r].table THEN TableAdd(tRows, records)
                                             ELSE BagOfSeq(records)
                /\ tExists' = TRUE
                /\ tRun' = [tRun EXCEPT ![r].table = TRUE,
                                        ![r].added = @ + Len(records),
                                        ![r].i = next,
                                        ![r].vectors = <<>>,
                                        ![r].pc = LoopEntry(next, Len(TwoAddItems(r)))]
    /\ UNCHANGED <<tManifest, tCorpus, tBatch, tOverlap>>
    /\ UNCHANGED outsideTwo

\* embedTexts or store.add rejects: the run throws
TwoFail(r) ==
    /\ tRun[r].pc \in {"incEmbed", "add"}
    /\ tRun' = [tRun EXCEPT ![r].pc = "failed"]
    /\ UNCHANGED <<tExists, tRows, tManifest, tCorpus, tBatch, tOverlap>>
    /\ UNCHANGED outsideTwo

\* store.ensureIndexes: throws without a table
TwoEnsureIndexes(r) ==
    /\ tRun[r].pc = "ensureIndexes"
    /\ tRun' = [tRun EXCEPT ![r].pc = IF tRun[r].table THEN "saveManifest" ELSE "failed"]
    /\ UNCHANGED <<tExists, tRows, tManifest, tCorpus, tBatch, tOverlap>>
    /\ UNCHANGED outsideTwo

\* saveManifest: the file is opened, which truncates it
TwoSaveManifestOpen(r) ==
    /\ tRun[r].pc = "saveManifest"
    /\ tManifest' = [state |-> "partial", ids |-> <<>>]
    /\ tRun' = [tRun EXCEPT ![r].pc = "writing"]
    /\ UNCHANGED <<tExists, tRows, tCorpus, tBatch, tOverlap>>
    /\ UNCHANGED outsideTwo

\* saveManifest: the JSON text is written out; buildIndex returns
TwoSaveManifestWrite(r) ==
    /\ tRun[r].pc = "writing"
    /\ tManifest' = [state |-> "ok", ids |-> tRun[r].currentIdsSet]
    /\ tRun' = [tRun EXCEPT ![r].pc = "done",
                            ![r].result = [mode |-> "incremental",
                                           chunksCount |-> Len(tRun[r].items),
                                           added |-> tRun[r].added,
                                           deleted |-> Len(tRun[r].toDelete)]]
    /\ UNCHANGED <<tExists, tRows, tCorpus, tBatch, tOverlap>>
    /\ UNCHANGED outsideTwo

TwoNext ==
    \E r \in Runs :
        \/ TwoStart(r)
        \/ TwoLoadAndDiff(r)
        \/ TwoDeleteStep(r)
        \/ TwoEmbedBatch(r)
        \/ TwoAddBatch(r)
        \/ TwoFail(r)
        \/ TwoEnsureIndexes(r)
        \/ TwoSaveManifestOpen(r)
        \/ TwoSaveManifestWrite(r)

\* ---------------------------------------------------------- specifications
Init == IndexerInit /\ DiffIdle /\ RrfIdle /\ MultiIdle /\ AskIdle /\ RetryIdle /\ CacheIdle /\ StoreIdle /\ PickIdle /\ EmbedIdle /\ HybIdle /\ TwoIdle

Spec == Init /\ [][IndexerNext]_vars

DiffSpecInit == IndexerInit /\ DiffInit /\ RrfIdle /\ MultiIdle /\ AskIdle /\ RetryIdle /\ CacheIdle /\ StoreIdle /\ PickIdle /\ EmbedIdle /\ HybIdle /\ TwoIdle

DiffSpec == DiffSpecInit /\ [][DiffCall]_vars

RrfSpecInit == IndexerInit /\ DiffIdle /\ RrfInit /\ MultiIdle /\ AskIdle /\ RetryIdle /\ CacheIdle /\ StoreIdle /\ PickIdle /\ EmbedIdle /\ HybIdle /\ TwoIdle

RrfSpec == RrfSpecInit /\ [][HybridSearchCall]_vars

MultiSpecInit == IndexerInit /\ DiffIdle /\ RrfIdle /\ MultiInit /\ AskIdle /\ RetryIdle /\ CacheIdle /\ StoreIdle /\ PickIdle /\ EmbedIdle /\ HybIdle /\ TwoIdle

MultiSpec == MultiSpecInit /\ [][MultiNext]_vars

AskSpecInit == IndexerInit /\ DiffIdle /\ RrfIdle /\ MultiIdle /\ AskInit /\ RetryIdle /\ CacheIdle /\ StoreIdle /\ PickIdle /\ EmbedIdle /\ HybIdle /\ TwoIdle

AskSpec == AskSpecInit /\ [][AskNext]_vars

RetrySpecInit == IndexerInit /\ DiffIdle /\ RrfIdle /\ MultiIdle /\ AskIdle /\ RetryInit /\ CacheIdle /\ StoreIdle /\ PickIdle /\ EmbedIdle /\ HybIdle /\ TwoIdle

RetrySpec == RetrySpecInit /\ [][RetryNext]_vars

\* fn() settles and the timer of the backoff fires
RetryLiveSpec == RetrySpec /\ WF_vars(RetryNext)

CacheSpecInit ==
    /\ IndexerInit /\ DiffIdle /\ RrfIdle /\ MultiIdle /\ AskIdle /\ RetryIdle
    /\ CacheInit /\ StoreIdle /\ PickIdle /\ EmbedIdle /\ HybIdle /\ TwoIdle

CacheSpec == CacheSpecInit /\ [][CacheNext]_vars

\* the event loop runs a task whose turn has come, and every writeJson a
\* running task awaits settles
CacheLiveSpec ==
    /\ CacheSpec
    /\ \A k \in 1..MaxRequests : WF_vars(TaskStart(k))
    /\ \A k \in 1..MaxRequests : WF_vars(TaskWrite(k) \/ TaskWriteFails(k))

StoreSpecInit ==
    /\ IndexerInit /\ DiffIdle /\ RrfIdle /\ MultiIdle /\ AskIdle /\ RetryIdle
    /\ CacheIdle /\ StoreInit /\ PickIdle /\ EmbedIdle /\ HybIdle /\ TwoIdle

StoreSpec == StoreSpecInit /\ [][StoreNext]_vars

PickSpecInit ==
    /\ IndexerInit /\ DiffIdle /\ RrfIdle /\ MultiIdle /\ AskIdle /\ RetryIdle
    /\ CacheIdle /\ StoreIdle /\ PickInit /\ EmbedIdle /\ HybIdle /\ TwoIdle

PickSpec == PickSpecInit /\ [][PickNext]_vars

EmbedSpecInit ==
    /\ IndexerInit /\ DiffIdle /\ RrfIdle /\ MultiIdle /\ AskIdle /\ RetryIdle
    /\ CacheIdle /\ StoreIdle /\ PickIdle /\ EmbedInit /\ HybIdle /\ TwoIdle

EmbedSpec == EmbedSpecInit /\ [][EmbedNext]_vars

HybSpecInit ==
    /\ IndexerInit /\ DiffIdle /\ RrfIdle /\ MultiIdle /\ AskIdle /\ RetryIdle
    /\ CacheIdle /\ StoreIdle /\ PickIdle /\ EmbedIdle /\ HybInit /\ TwoIdle

HybSpec == HybSpecInit /\ [][HybNext]_vars

TwoSpecInit ==
    /\ IndexerInit /\ DiffIdle /\ RrfIdle /\ MultiIdle /\ AskIdle /\ RetryIdle
    /\ CacheIdle /\ StoreIdle /\ PickIdle /\ EmbedIdle /\ HybIdle /\ TwoInit

TwoSpec == TwoSpecInit /\ [][TwoNext]_vars

\* ------------------------------------------------------------------ claims
Called(name) == \E k \in DOMAIN calls : calls[k] = name

TimesCalled(name) == Cardinality({k \in DOMAIN calls : calls[k] = name})

ItemIds == [k \in 1..Len(items) |-> items[k].id]

\* C1: for all id sets P and C, diffManifests(P, C).toAdd holds exactly the
\* ids of C \ P and .toDelete exactly those of P \ C, each id once; the two
\* lists are disjoint, every id of P \cup C is in exactly one of unchanged,
\* toAdd, toDelete; diff(P, P) is empty twice and diff({}, C).toAdd = C.
C1_DiffManifests ==
    dPc = "returned" =>
        LET P  == Range(dPrev)
            C  == Range(dCur)
            A  == Range(dOut.toAdd)
            D  == Range(dOut.toDelete)
            In(x, S) == IF x \in S THEN 1 ELSE 0
        IN  /\ A = C \ P
            /\ D = P \ C
            /\ NoDuplicates(dOut.toAdd)
            /\ NoDuplicates(dOut.toDelete)
            /\ A \cap D = {}
            /\ \A id \in P \cup C : In(id, P \cap C) + In(id, A) + In(id, D) = 1
            /\ (P = C => dOut.toAdd = <<>> /\ dOut.toDelete = <<>>)
            /\ (P = {} => dOut.toAdd = dCur)

C1_Witness ==
    /\ dPc = "returned"
    /\ dOut.toAdd # <<>>
    /\ dOut.toDelete # <<>>
    /\ Range(dPrev) \cap Range(dCur) # {}

\* C2: an incremental run that follows a successful run over the same corpus
\* computes toAdd = [] and toDelete = [], calls neither embedTexts nor
\* store.add nor store.deleteByIds, and saves the manifest it loaded.
C2_UnchangedCorpus ==
    (after = "sameAfterDone" /\ mode = "incremental" /\ pc \in (Running \cup {"done"}) \ {"loadManifest"}) =>
        /\ toAdd = <<>>
        /\ toDelete = <<>>
        /\ ~Called("embed")
        /\ ~Called("add")
        /\ ~Called("deleteByIds")
        /\ (pc = "done" => manifestFile = [state |-> "ok", ids |-> previousIdsSet])

C2_Witness ==
    /\ after = "sameAfterDone"
    /\ mode = "incremental"
    /\ pc = "done"
    /\ Len(items) = MaxChunks

\* C3: when exactly one chunk's content changed since the last successful
\* run, the chunk gets another id and the incremental run removes the old id
\* from the store and adds the new one (one deletion, one addition).
C3_EditIsDeletePlusAdd ==
    (/\ after = "oneEditAfterDone"
     /\ mode = "incremental"
     /\ pc = "done"
     /\ Len(toDelete) = 1
     /\ Len(toAdd) = 1) =>
        /\ toDelete[1] # toAdd[1]
        /\ CountId(rows, toDelete[1]) = 0
        /\ CountId(rows, toAdd[1]) >= 1
        /\ result.added = 1
        /\ result.deleted = 1

\* the store mutations and ensureIndexes of the run are all behind it
MutationsApplied ==
    /\ Called("ensureIndexes")
    /\ mode = "full" =>
        /\ Called("overwrite")
        /\ i >= Len(items)
        /\ rows = BagOfSeq(Records(items, embedTexts(Contents_(items))))
    /\ mode = "incremental" =>
        /\ i >= Len(addItems)
        /\ added = Len(addItems)
        /\ (toDelete # <<>> => Called("deleteByIds"))

\* C4: in both modes the manifest is written only after every store mutation
\* of the run and ensureIndexes have completed, no mutation follows the
\* write, and a failure of embedTexts, add, overwrite or ensureIndexes ends
\* the run with the manifest as it was.
C4_ManifestLast ==
    [][/\ manifestFile' # manifestFile => (pc \in {"saveManifest", "writing"} /\ MutationsApplied)
       /\ pc \in {"saveManifest", "writing", "done"} => (rows' = rows /\ tableExists' = tableExists)
       /\ (pc \in {"fullEmbed", "incEmbed", "add", "dropTable", "createTable", "ensureIndexes"}
             /\ pc' = "failed") =>
                (manifestFile' = manifestFile /\ ~Called("saveManifest"))
      ]_vars

C4_Witness ==
    /\ pc = "failed"
    /\ stoppedAt \in {"incEmbed", "add"}
    /\ manifestFile.state = "ok"
    /\ manifestFile.ids # <<>>
    /\ lastRun.kind = "interruptedAdd"

\* C5: an incremental run interrupted before its manifest save (here: after
\* at least one add batch), then run again to completion over the same
\* corpus, leaves the store with exactly the current ids, each once.
C5_RerunAfterInterruption ==
    (/\ after = "sameAfterInterruptedAdd"
     /\ mode = "incremental"
     /\ pc = "done"
     /\ NoDuplicates(ItemIds)) =>
        /\ RowIds(rows) = Range(currentIdsSet)
        /\ \A id \in Range(currentIdsSet) : CountId(rows, id) = 1

\* C6: after every run that returns (here: no run before it was cut short),
\* the ids in the store are the ids of the saved manifest, which are the ids
\* of the current corpus.
C6_StoreManifestCorpusAgree ==
    (pc = "done" /\ ~everStopped) =>
        /\ manifestFile.state = "ok"
        /\ Range(manifestFile.ids) = Range(currentIdsSet)
        /\ RowIds(rows) = Range(manifestFile.ids)

\* C7: saveManifest is atomic: when the process dies during a save, a later
\* loadManifest returns the previous id set or the new one, nothing else.
C7_SaveManifestAtomic ==
    [][(mode = "incremental" /\ pc = "writing" /\ pc' = "crashed") =>
            loadManifest(manifestFile') \in {previousIdsSet, currentIdsSet}
      ]_vars

\* C8: in an incremental run a failure of store.deleteByIds does not fail the
\* run: the run goes on to embed and add every toAdd record, calls
\* ensureIndexes, saves the full current id set and returns.
C8_DeleteFailureNotFatal ==
    /\ pc = "failed" => stoppedAt # "delete"
    /\ deleteThrew => pc \in {"incEmbed", "add", "ensureIndexes", "saveManifest", "writing", "done"}
    /\ (deleteThrew /\ pc = "done") =>
        /\ manifestFile = [state |-> "ok", ids |-> currentIdsSet]
        /\ \A id \in Range(toAdd) : CountId(rows, id) >= 1
        /\ added = Len(addItems)
        /\ TimesCalled("embed") = TimesCalled("add")
        /\ Called("ensureIndexes")
        /\ result.mode = "incremental"

C8_Witness ==
    /\ deleteThrew
    /\ pc = "done"
    /\ toAdd # <<>>
    /\ toDelete # <<>>

\* C9: when deleteByIds failed, the value buildIndex returns shows it: it is
\* not the value of the same run with a successful delete, and its deleted
\* count leaves out the ids that are still in the store.
C9_ReturnShowsDeleteFailure ==
    (deleteThrew /\ pc = "done") =>
        /\ result # [mode |-> "incremental", chunksCount |-> Len(items),
                     added |-> added, deleted |-> Len(toDelete)]
        /\ result.deleted <= Cardinality({id \in Range(toDelete) : CountId(rows, id) = 0})

\* C10: store.deleteByIds(ids) removes exactly the rows whose id is in ids,
\* leaves every other row as it is, and raises no error (an id without a row
\* is a no-op).
C10_DeleteByIds ==
    [][(pc = "delete" /\ pc' # "crashed") =>
            /\ rows' = WithoutIds(rows, toDelete)
            /\ pc' # "failed"
            /\ ~deleteThrew'
      ]_vars

\* position of the first call of that name in the run's call sequence (0: none)
FirstCall(name) ==
    IF Called(name) THEN CHOOSE k \in DOMAIN calls :
                            calls[k] = name /\ \A j \in 1..(k - 1) : calls[j] # name
    ELSE 0

\* C11: after a full-mode run that returns, whatever the store and manifest
\* were before, the store holds exactly the records of the current corpus and
\* the manifest is the full current id set; the previous manifest was not
\* read, overwrite came before ensureIndexes, ensureIndexes before the
\* manifest save, and the returned deleted count is 0.
C11_FullRebuild ==
    (mode = "full" /\ pc = "done") =>
        /\ tableExists
        /\ rows = BagOfSeq(Records(items, embedTexts(Contents_(items))))
        /\ manifestFile = [state |-> "ok", ids |-> currentIdsSet]
        /\ Range(currentIdsSet) = Range(ItemIds)
        /\ ~Called("loadManifest")
        /\ ~Called("deleteByIds")
        /\ 0 < FirstCall("overwrite")
        /\ FirstCall("overwrite") < FirstCall("ensureIndexes")
        /\ FirstCall("ensureIndexes") < FirstCall("saveManifest")
        /\ result = [mode |-> "full", chunksCount |-> Len(items),
                     added |-> Len(items), deleted |-> 0]

C11_Witness ==
    /\ mode = "full"
    /\ pc = "done"
    /\ everStopped
    /\ Len(items) = MaxChunks
    /\ TimesCalled("embed") = MaxChunks

\* what a run in mode m over the items its leaves behind when it starts from
\* the disk state p and returns, computed in one piece (no batches)
FinalOf(p, m, its) ==
    LET ids  == computeChunkMetaIdSet(its)
        d    == diffManifests(loadManifest(p.manifestFile), ids)
        ai   == AddItemsOf(its, d.toAdd)
        kept == IF Len(d.toDelete) > 0 THEN CallDeleteByIds(p.rows, d.toDelete).rows
                                       ELSE p.rows
    IN  IF m = "full"
        THEN [rows         |-> BagOfSeq(Records(its, embedTexts(Contents_(its)))),
              manifestFile |-> [state |-> "ok", ids |-> ids],
              result       |-> [mode |-> m, chunksCount |-> Len(its),
                                added |-> Len(its), deleted |-> 0]]
        ELSE [rows         |-> kept (+) BagOfSeq(Records(ai, embedTexts(Contents_(ai)))),
              manifestFile |-> [state |-> "ok", ids |-> ids],
              result       |-> [mode |-> m, chunksCount |-> Len(its),
                                added |-> Len(ai), deleted |-> Len(d.toDelete)]]

\* number of passes of a loop over n elements in steps of b
Passes(n, b) == (n + b - 1) \div b

\* C12: for a fixed corpus, mode and prior store and manifest, the store
\* records, the manifest and the returned counts of a run that returns are a
\* function of these alone, so two runs that differ only in batchSize end the
\* same; batchSize only decides the number of embedding calls.
C12_BatchSizeIrrelevant ==
    pc = "done" =>
        /\ [rows |-> rows, manifestFile |-> manifestFile, result |-> result]
              = FinalOf(prior, mode, items)
        /\ TimesCalled("embed")
              = Passes(IF mode = "full" THEN Len(items) ELSE Len(addItems), batchSize)

C12_Witness ==
    /\ pc = "done"
    /\ mode = "incremental"
    /\ batchSize = MaxBatch
    /\ Len(addItems) = 1
    /\ prior.rows # EmptyBag
    /\ prior.manifestFile.state = "ok"

\* the two lists hybridSearch fuses, best first
BestFirstVector == StableSortDesc(vectorSearch(rVec))

BestFirstFts == StableSortDesc(ftsSearch(rFts))

\* rank (from 1) of the record with that id in a best-first list, 0: not in it
RankIn(list, id) ==
    IF \E k \in DOMAIN list : list[k].item.id = id
    THEN CHOOSE k \in DOMAIN list :
            list[k].item.id = id /\ \A j \in 1..(k - 1) : list[j].item.id # id
    ELSE 0

\* what a list contributes to the fused score of the record with that id
Contribution(list, id, K) ==
    IF RankIn(list, id) = 0 THEN Zero ELSE Rat(1, K + RankIn(list, id))

\* C13: the fused score of every record hybridSearch returns is the sum over
\* the two best-first lists of 1 / (rrfK + rank of the record in the list), a
\* list without the record contributing 0; the output is sorted by fused
\* score, highest first, and holds at most topK records.
C13_FusedScore ==
    \A c \in DOMAIN rOut :
        /\ \A k \in DOMAIN rOut[c] :
              rOut[c][k].score =
                  RatAdd(Contribution(BestFirstVector, rOut[c][k].item.id, rK),
                         Contribution(BestFirstFts, rOut[c][k].item.id, rK))
        /\ IsSortedDesc(rOut[c])
        /\ Len(rOut[c]) <= rTopK

\* the fused score of a record that is first in both lists and nowhere else
FirstInBoth(K) == RatAdd(Rat(1, K + 1), Rat(1, K + 1))

\* C14: for every rrfK > 0 a record ranked 1st in both lists is fused to a
\* strictly higher score than a record ranked 1st in only one of them,
\* whatever its rank in the other list: the former never gets less than
\* 2 / (rrfK + 1), the latter always gets less than that.
C14_RrfFairness ==
    \A c \in DOMAIN rOut : \A k \in DOMAIN rOut[c] :
        LET e  == rOut[c][k]
            rv == RankIn(BestFirstVector, e.item.id)
            rf == RankIn(BestFirstFts, e.item.id)
        IN  /\ (rv = 1 /\ rf = 1) => ~RatLess(e.score, FirstInBoth(rK))
            /\ ((rv = 1) # (rf = 1)) => RatLess(e.score, FirstInBoth(rK))

\* C16: with the two searches answering the same, a second call of
\* hybridSearch returns the same hits with the same scores in the same order
\* as the first, ties included.
C16_RrfDeterminism ==
    Len(rOut) = 2 => rOut[1] = rOut[2]

C16_Witness ==
    /\ Len(rOut) = 2
    /\ Len(rOut[2]) = 2
    /\ rOut[2][1].item.id # rOut[2][2].item.id
    /\ rOut[2][1].score = rOut[2][2].score
    /\ Len(rVec) = 2
    /\ rVec[1]._distance = rVec[2]._distance

\* the scores the variants' hybridSearch calls gave the record with that id
VariantScores(id) ==
    UNION {{mHits[v][k].score : k \in {j \in DOMAIN mHits[v] : mHits[v][j].item.id = id}} :
             v \in DOMAIN mHits}

HitIds(hits) == {hits[k].item.id : k \in DOMAIN hits}

\* C15: hybridSearchMulti merges the variants by record id and keeps for each
\* id the largest fused score a single variant's hybridSearch gave it, never
\* the sum (1/2 in one variant and 1/3 in another merge to 1/2); the result
\* is taken from that merge, sorted by score, at most finalTopK long.
C15_MergeIsMax ==
    /\ \A j \in DOMAIN mBest :
          /\ mBest[j].score \in VariantScores(mBest[j].item.id)
          /\ \A sc \in VariantScores(mBest[j].item.id) : ~RatLess(mBest[j].score, sc)
          /\ \A k \in DOMAIN mBest : k # j => mBest[k].item.id # mBest[j].item.id
    /\ HitIds(mBest) = UNION {HitIds(mHits[v]) : v \in DOMAIN mHits}
    /\ mPc = "returned" =>
          /\ Range(mOut) \subseteq Range(mBest)
          /\ IsSortedDesc(mOut)
          /\ Len(mOut) = Min(mFinal, Len(mBest))
          /\ \A j \in DOMAIN mBest : \A k \in DOMAIN mOut :
                ~Includes(mOut, mBest[j]) => ~RatLess(mOut[k].score, mBest[j].score)

C15_Witness ==
    /\ mPc = "returned"
    /\ mK = 1
    /\ \E k \in DOMAIN mOut :
          /\ mOut[k].score = Rat(1, 2)
          /\ VariantScores(mOut[k].item.id) = {Rat(1, 2), Rat(1, 3)}

AskCalled(name) == \E k \in DOMAIN aCalls : aCalls[k] = name

\* the filters of the request have run
Filtered == aPc \in {"answer", "persist", "returned"} \/ AskCalled("answer")

\* C17: the hits pickDiverse hands on are at most k = CONTEXT_K and no record
\* is among them twice (they are hits of the filtered list, in its order).
C17_DiversityCap ==
    (Filtered /\ aFiltered # <<>>) =>
        /\ Len(aSelected) <= aContextK
        /\ \A j, k \in DOMAIN aSelected : j # k => aSelected[j].item.id # aSelected[k].item.id
        /\ Range(aSelected) \subseteq Range(aFiltered)
        /\ (aPc = "returned" => Len(aResult.sources) <= aContextK /\ NoDuplicates(aResult.sources))

C17_Witness ==
    /\ aPc = "returned"
    /\ aContextK > 1
    /\ Len(aSelected) = aContextK
    /\ Len(aFiltered) > aContextK

\* the keywords of the request, lower-cased
LowerKeywords == [j \in 1..Len(aOpts.mustInclude[1]) |-> toLowerCase(aOpts.mustInclude[1][j])]

\* the hits applyMustInclude is given
SourceFiltered == applySourceFilters(aMerged, aOpts.filters)

\* C18 as stated: with a non-empty keyword list applyMustInclude keeps a hit,
\* in mode all, iff every lower-cased keyword is a substring of the
\* lower-cased chunk text, and in mode any iff at least one is.
C18_MustInclude ==
    (Filtered /\ aOpts.mustInclude # None /\ Len(aOpts.mustInclude[1]) > 0) =>
        \A k \in DOMAIN SourceFiltered :
            LET text == toLowerCase(SourceFiltered[k].item.content)
            IN  Includes(aFiltered, SourceFiltered[k]) <=>
                    IF aOpts.mustIncludeMode = "all"
                    THEN \A kw \in Range(LowerKeywords) : includes(text, kw)
                    ELSE \E kw \in Range(LowerKeywords) : includes(text, kw)

\* C18 amended: the keywords that count are the non-empty ones; a hit is kept
\* in mode all iff every non-empty lower-cased keyword is a substring of the
\* lower-cased chunk text, in mode any iff at least one is, and every hit is
\* kept when no non-empty keyword is left.  For text "refund policy applies"
\* and keywords ["refund", "partial"], all excludes the hit and any keeps it.
C18_MustIncludeNonEmpty ==
    (Filtered /\ aOpts.mustInclude # None /\ Len(aOpts.mustInclude[1]) > 0) =>
        LET kws == Range(LowerKeywords) \ {""}
        IN  /\ \A k \in DOMAIN SourceFiltered :
                  LET text == toLowerCase(SourceFiltered[k].item.content)
                  IN  Includes(aFiltered, SourceFiltered[k]) <=>
                          \/ kws = {}
                          \/ IF aOpts.mustIncludeMode = "all"
                             THEN \A kw \in kws : includes(text, kw)
                             ELSE \E kw \in kws : includes(text, kw)
            /\ aFiltered = SelectSeq(SourceFiltered, LAMBDA h : Includes(aFiltered, h))
            /\ aOpts.mustInclude = Some(<<"refund", "partial">>) =>
                  \A k \in DOMAIN SourceFiltered :
                      SourceFiltered[k].item.content = "refund policy applies" =>
                          (Includes(aFiltered, SourceFiltered[k]) <=> aOpts.mustIncludeMode = "any")

C18_Witness ==
    /\ Filtered
    /\ aOpts.mustInclude = Some(<<"refund", "partial">>)
    /\ aOpts.mustIncludeMode = "all"
    /\ \E k \in DOMAIN SourceFiltered : SourceFiltered[k].item.content = "refund policy applies"
    /\ \E k \in DOMAIN aFiltered : aFiltered[k].item.content = "Partial REFUND policy"

\* the indexed chunk with that id
ChunkOf(id) == CHOOSE x \in Range(AskItems) : x.id = id

\* C19: every source ask returns is the id of a chunk that passes the
\* request's constraints: its source is in filters.sources when given, starts
\* with filters.sourcePrefix when given, and its text satisfies mustInclude
\* under the requested mode (with mustInclude ["refund"], mode all, no chunk
\* without "refund" is returned).
C19_SourcesPassConstraints ==
    aPc = "returned" =>
        \A k \in DOMAIN aResult.sources :
            LET id   == aResult.sources[k]
                ch   == ChunkOf(id)
                text == toLowerCase(ch.content)
            IN  /\ \E x \in Range(AskItems) : x.id = id
                /\ aOpts.filters # None =>
                      /\ aOpts.filters[1].sources # None =>
                            Includes(aOpts.filters[1].sources[1], ch.source)
                      /\ aOpts.filters[1].sourcePrefix # None =>
                            startsWith(ch.source, aOpts.filters[1].sourcePrefix[1])
                /\ (aOpts.mustInclude # None /\ Len(aOpts.mustInclude[1]) > 0) =>
                      IF aOpts.mustIncludeMode = "all"
                      THEN \A kw \in Range(LowerKeywords) : includes(text, kw)
                      ELSE \E kw \in Range(LowerKeywords) : includes(text, kw)
                /\ (aOpts.mustInclude = Some(<<"refund">>) /\ aOpts.mustIncludeMode = "all") =>
                      ch.content # "Shipping is free"

C19_Witness ==
    /\ aPc = "returned"
    /\ aResult.sources # <<>>
    /\ aOpts.filters = Some([sources |-> Some(<<"a.md">>), sourcePrefix |-> None])
    /\ aOpts.mustInclude = Some(<<"refund">>)
    /\ aOpts.mustIncludeMode = "all"
    /\ Len(aMerged) = 3

\* C20: when the filters leave no candidate, ask returns the fixed "no
\* matching passages" answer with sources = [], raises no error and makes no
\* answer-generation call.
C20_EmptyFilterShortCircuit ==
    (Filtered /\ aFiltered = <<>>) =>
        /\ aPc = "returned"
        /\ aResult = [answer |-> NoMatchAnswer, sources |-> <<>>]
        /\ aError = NoError
        /\ ~AskCalled("answer")

C20_Witness ==
    /\ aPc = "returned"
    /\ aOpts.filters = Some([sources |-> Some(<<"nonexistent.md">>), sourcePrefix |-> None])
    /\ Len(aMerged) = 3
    /\ aFiltered = <<>>
    /\ aResult.answer = NoMatchAnswer

\* the citationId of an indexed chunk is its source, "#" and its chunkIndex
CitationIds(selected) ==
    [k \in 1..Len(selected) |-> makeCitationId(selected[k].item.source, selected[k].item.chunkIndex)]

\* C21: the sources ask returns are the citationIds (source # chunkIndex) of
\* the selected chunks in selection order, the labels of the blocks of the
\* assembled context in the same order.
C21_SourcesAreCitationIds ==
    (aPc = "returned" /\ AskCalled("answer")) =>
        /\ aResult.sources = CitationIds(aSelected)
        /\ aResult.sources = [k \in 1..Len(aSelected) |-> BlockLabel(aSelected[k])]

\* the service reports a quota failure: HTTP 429 with the code
\* insufficient_quota, or with a message that speaks of the quota
IsQuotaFailure(err) ==
    err.status = 429 /\ (err.code = "insufficient_quota" \/ includes(toLowerCase(err.message), "quota"))

CaughtIn(steps) == {k \in DOMAIN aCaught : aCaught[k].step \in steps}

\* C22: a quota failure of the generation service during augmentation
\* (multi-query or HyDE) does not fail the request: rewrites and hyde are
\* empty and the pipeline goes on with the variant list [question].
C22_AugmentationQuotaSkipped ==
    \A k \in CaughtIn({"multi-query", "hyde"}) :
        IsQuotaFailure(aCaught[k].err) =>
            /\ aRewrites = <<>>
            /\ aHyde = ""
            /\ aTexts = <<aQuestion>>
            /\ aPc \in {"embed", "retrieve", "filter", "answer", "persist", "returned", "threw"}
            /\ aPc = "threw" => k < Len(aCaught) \/ AskCalled("hybridSearchMulti")

C22_Witness ==
    /\ aPc = "returned"
    /\ aResult.answer = "generated"
    /\ aCalls[1] = "multi-query"
    /\ aCalls[2] = "hyde"
    /\ \E k \in CaughtIn({"hyde"}) : IsQuotaFailure(aCaught[k].err)

\* C23: a quota failure of the variant-embedding step or of the answer step
\* ends the request with a service-unavailable error (statusCode 503) and no
\* answer, never with the result "no matching passages"; any other failure
\* of those steps propagates as it is.
C23_QuotaIsFatal ==
    \A k \in CaughtIn({"embed", "answer"}) :
        /\ aPc = "threw"
        /\ aResult = NoAnswer
        /\ IF IsQuotaFailure(aCaught[k].err)
           THEN aError.statusCode = 503 /\ aError # aCaught[k].err
           ELSE aError = aCaught[k].err

C23_Witness ==
    /\ aPc = "threw"
    /\ aError.statusCode = 503
    /\ \E k \in CaughtIn({"embed"}) : aCaught[k].err.code # "insufficient_quota"

\* C29: a request whose question is empty or only whitespace is rejected
\* before any call to the generation service, the embedding service or the
\* store.
C29_MalformedQuestionRejected ==
    /\ (aRaw.type = "string" /\ trim(aRaw.value) = "" /\ aPc \notin {"idle", "off"}) =>
           aPc = "rejected"
    /\ aPc = "rejected" => aCalls = <<>> /\ aError.statusCode = 400 /\ aResult = NoAnswer

C29_Witness ==
    /\ aPc = "rejected"
    /\ aRaw = Json("string", " \n\t")

IsRateLimitFailure(err) ==
    LET msg == toLowerCase(err.message)
    IN  err.status = 429 /\ (\/ err.code = "rate_limit_exceeded"
                             \/ includes(msg, "rate limit")
                             \/ includes(msg, "too many requests"))

IsTransientFailure(err) ==
    LET msg == toLowerCase(err.message)
    IN  \/ (err.status >= 500 /\ err.status <= 599)
        \/ includes(msg, "timeout")
        \/ includes(msg, "temporarily")

\* C24: withRetry never retries a quota failure: the error propagates after
\* that one attempt with no backoff wait; a failure that is neither a rate
\* limit nor transient propagates without a retry too.
C24_QuotaNeverRetried ==
    \A k \in DOMAIN wFailures :
        (\/ IsQuotaFailure(wFailures[k])
         \/ ~(IsRateLimitFailure(wFailures[k]) \/ IsTransientFailure(wFailures[k]))) =>
            /\ k = Len(wFailures)
            /\ wPc = "threw"
            /\ wThrown = wFailures[k]
            /\ Len(wWaits) = k - 1
            /\ wAttempt = k - 1

C24_Witness ==
    /\ wPc = "threw"
    /\ Len(wFailures) = 3
    /\ IsQuotaFailure(wThrown)
    /\ IsRateLimitFailure(wThrown)


\* the tasks of the write queue that are running
RunningTasks == {k \in DOMAIN cTasks : cTasks[k].status = "running"}

\* C25: cache writes are serialized through one FIFO queue: a write task has
\* started only if every task queued before it has finished, so tasks run in
\* enqueue order, and no two write tasks run at the same time.
C25_WritesSerialized ==
    /\ \A k \in DOMAIN cTasks :
          cTasks[k].status # "queued" => \A j \in 1..(k - 1) : Settled(cTasks[j])
    /\ Cardinality(RunningTasks) <= 1

\* the task of one request is part-way through the files while the task of
\* another request is queued behind it
C25_Witness ==
    /\ Len(cTasks) = 2
    /\ cTasks[1].req # cTasks[2].req
    /\ cTasks[1].status = "running" /\ cTasks[1].written = 1
    /\ cTasks[2].status = "queued"

\* the requests that queued a write task
Enqueuers == {cTasks[k].req : k \in DOMAIN cTasks}

\* C26: a failed cache write is swallowed: no later write task is passed over
\* because of it, and a request that queued a write never fails (a request
\* whose persist step has settled returned its answer).
C26_WriteFailureSwallowed ==
    /\ \A k \in DOMAIN cTasks : cTasks[k].status # "skipped"
    /\ \A r \in Enqueuers : cOut[r] # "error"
    /\ \A r \in Enqueuers : cPc[r] = "done" => cOut[r] = "answer"

\* the first write task failed, the one queued after it wrote all three files,
\* and both requests returned their answer
C26_Witness ==
    /\ Len(cTasks) = 2
    /\ cTasks[1].status = "failed"
    /\ cTasks[2].status = "done" /\ cTasks[2].written = Len(CacheFiles)
    /\ \A r \in Requests : cPc[r] = "done" /\ cOut[r] = "answer"

\* C27: cache entries are immutable once written: a key that holds a value
\* holds the same value in the next state, and so in every later state (an
\* entry is neither changed nor removed).
C27_EntriesImmutable ==
    [][\A key \in CacheKeys : cMem[key] # NoEntry => cMem'[key] = cMem[key]]_vars

\* C28: when an ask request has returned a result without error (an answer or
\* the no-match outcome), a write of the three caches queued by that request
\* has completed.
C28_FlushedBeforeReturn ==
    \A r \in Requests :
        cOut[r] \in {"answer", "noMatch"} =>
            \E k \in DOMAIN cTasks : cTasks[k].req = r /\ Settled(cTasks[k])

\* the methods the error condition of the store names, add apart
GuardedMethods ==
    {"ensureIndexes", "vectorSearch", "ftsSearch", "hybridSearch", "hybridSearchMulti",
     "overwrite", "deleteByIds"}

PickedAt(j) == \E m \in DOMAIN pdPicked : pdPicked[m] = pdHits[j]

\* the hits picked before the loop came to the j-th
PickedBefore(j) == {m \in 1..(j - 1) : PickedAt(m)}

\* the highest cosine similarity between the j-th hit and a hit picked before
\* it, 0 when there is none above 0
MaxSimAt(j) ==
    LET sims == {Zero} \cup {dot(pdHits[j].item.embeddingUnit, pdHits[m].item.embeddingUnit) :
                                m \in PickedBefore(j)}
    IN  CHOOSE v \in sims : \A w \in sims : ~RatLess(v, w)

\* lambda * score - (1 - lambda) * maxSim > minKeep for the j-th hit
KeepsAt(j) ==
    RatLess(Rat(1, 10),
            RatSub(RatMul(Rat(4, 5), pdHits[j].score), RatMul(Rat(1, 5), MaxSimAt(j))))

IsRetryableFailure(err) ==
    ~IsQuotaFailure(err) /\ (IsRateLimitFailure(err) \/ IsTransientFailure(err))

\* a backoff without its jitter (the jitter is below 250, the rest a multiple)
WithoutJitter(ms) == ms - (ms % 250)

\* the attempts, failures and waits of withRetry: at most maxRetries + 1
\* attempts; a throw after retryable failures only comes after exactly
\* maxRetries + 1 of them and throws the last; a success ends the call; the
\* wait after failure n is 500 doubled n - 1 times, capped at 8000
RetryBounded ==
    /\ Len(wFailures) <= maxRetries + 1
    /\ wAttempt <= maxRetries
    /\ wPc \in {"call", "returned"} => wAttempt = Len(wFailures) /\ Len(wWaits) = Len(wFailures)
    /\ wPc = "threw" =>
          /\ wThrown = wFailures[Len(wFailures)]
          /\ Len(wWaits) = Len(wFailures) - 1
          /\ (\A k \in DOMAIN wFailures : IsRetryableFailure(wFailures[k])) =>
                Len(wFailures) = maxRetries + 1
    /\ \A k \in 1..(Len(wFailures) - 1) : IsRetryableFailure(wFailures[k])
    /\ \A n \in DOMAIN wWaits :
          /\ WithoutJitter(wWaits[n]) = (IF n = 1 THEN 500
                                         ELSE Min(8000, 2 * WithoutJitter(wWaits[n - 1])))
          /\ WithoutJitter(wWaits[n]) <= 8000
          /\ wWaits[n] - WithoutJitter(wWaits[n]) < 250
    /\ \A a \in 0..(maxRetries + 2) :
          /\ backoffMs(a, 0) = (IF a <= 3 THEN 500 * (2 ^ a) ELSE 8000)
          /\ backoffMs(a, 0) <= backoffMs(a + 1, 0)

\* C33: withRetry always terminates, after at most maxRetries + 1 attempts:
\* exactly that many when every failure is retryable, throwing the last
\* error; a success returns at once; the backoff before a retry, jitter
\* excluded, is min(8000, 500 * 2^attempt), non-decreasing and never above 8000.
C33_RetryTerminates == []RetryBounded /\ <>(wPc \in {"returned", "threw"})

\* five retryable failures, four waits of 500, 1000, 2000 and 4000 plus
\* jitter, then the last error thrown
C33_Witness ==
    /\ wPc = "threw"
    /\ Len(wFailures) = maxRetries + 1
    /\ \A k \in DOMAIN wFailures : IsRetryableFailure(wFailures[k])
    /\ wThrown = wFailures[maxRetries + 1]
    /\ [n \in DOMAIN wWaits |-> WithoutJitter(wWaits[n])] = <<500, 1000, 2000, 4000>>

\* C34: embedTextsCached returns one vector per text, in input order, the
\* vector at position i being the embedding of texts[i]; only missing texts
\* are sent, in one call, none when every text hits; each new vector is
\* stored under the key of its own text.
C34_EmbedTextsCached ==
    /\ ePc = "returned" =>
          /\ Len(eOut) = Len(eTexts)
          /\ \A k \in DOMAIN eTexts : eOut[k] = embedTexts(<<eTexts[k]>>)[1]
    /\ Len(eSent) <= 1
    /\ \A n \in DOMAIN eSent :
          eSent[n] = [j \in 1..Len(eMissIndexes) |-> eTexts[eMissIndexes[j] + 1]]
    /\ ePc = "returned" /\ eSent # <<>> =>
          LET last == eTexts[eMissIndexes[Len(eMissIndexes)] + 1]
          IN  eCache[EmbedKey(last)] = <<embedTexts(<<last>>)[1]>>

\* C35: within one hybridSearch both sub-searches are issued before either
\* is awaited, and the value returned is the one fusion of the two answers,
\* whichever of the two completed first.
C35_OrderIndependent ==
    /\ hPc \in {"await", "returned", "threw"} => hIssued = <<"vector", "fts">>
    /\ hSettled # <<>> => Len(hIssued) = 2
    /\ hPc = "returned" =>
          /\ hybridSearch(hVec, hFts, hTopK, hK) = {hOut[1]}
          /\ Range(hSettled) = {"vector", "fts"}

C35_Witness ==
    /\ hPc = "returned"
    /\ hSettled = <<"fts", "vector">>
    /\ hVec # <<>>
    /\ hFts # <<>>
    /\ hVec[1].id # hFts[1].id
    /\ Len(hOut[1]) = 2

\* C36: after a sequence of runs that all returned, the store holds exactly
\* one record for every id of the saved manifest, and the added count the
\* last run returned is the number of distinct ids it added, also when two
\* chunks of one source have the same content and so the same id.
C36_OneRecordPerId ==
    (pc = "done" /\ ~everStopped) =>
        /\ manifestFile.state = "ok"
        /\ \A id \in Range(manifestFile.ids) : CountId(rows, id) = 1
        /\ result.added =
              Cardinality({it.id : it \in Range(IF mode = "full" THEN items ELSE addItems)})

\* C37: when two incremental runs that overlapped in time have both
\* returned, the store holds each id of the current corpus exactly once and
\* the manifest is the current id set.
C37_OverlappingRuns ==
    (tOverlap /\ \A r \in Runs : tRun[r].pc = "done") =>
        /\ \A id \in Range(computeChunkMetaIdSet(ItemsOf(tCorpus))) : CountId(tRows, id) = 1
        /\ tManifest = [state |-> "ok", ids |-> computeChunkMetaIdSet(ItemsOf(tCorpus))]

\* the ids the store held beyond the manifest when the present run began
StaleIds == RowIds(prior.rows) \ Range(loadManifest(prior.manifestFile))

AfterDiff == (BeforeSave \ {"loadManifest"}) \cup {"writing", "done"}

StaleRecordsKept ==
    (mode = "incremental" /\ pc \in AfterDiff) =>
        /\ \A id \in Range(toDelete) : id \notin StaleIds
        /\ \A id \in StaleIds : CountId(rows, id) >= CountId(prior.rows, id)

\* C38: the records an incremental run failed to delete stay in the store
\* through every later incremental run: no later diff has their ids in
\* toDelete, no step of an incremental run takes a record away, and the only
\* steps that remove records are those of a full-mode run.
C38_StaleRecordsStay ==
    /\ []StaleRecordsKept
    /\ [][(\E id \in RowIds(rows) : CountId(rows', id) < CountId(rows, id)) => mode = "full"]_vars

C38_Witness ==
    /\ mode = "incremental"
    /\ pc = "done"
    /\ ~everStopped
    /\ prior.manifestFile.state = "ok"
    /\ StaleIds # {}
    /\ StaleIds \cap Range(currentIdsSet) = {}
    /\ \A id \in StaleIds : CountId(rows, id) = 1

\* the k-th task of the write queue is waiting for its turn
TaskQueued(k) == k \in DOMAIN cTasks /\ cTasks[k].status = "queued"

\* fn of the k-th task has been called
TaskRan(k) == k \in DOMAIN cTasks /\ cTasks[k].status \in {"running", "done", "failed"}

\* a request with a write task has returned only if that task and all the
\* tasks queued before it ran and finished
ReturnedAfterOwnTask ==
    \A r \in Enqueuers :
        cPc[r] = "done" =>
            \E k \in DOMAIN cTasks :
                /\ cTasks[k].req = r
                /\ \A j \in 1..k : cTasks[j].status \in {"done", "failed"}

\* C39: every queued cache write task eventually runs, given that the tasks
\* before it terminate, and a request returns its answer only after its own
\* write task and all tasks queued before it have finished.
C39_QueuedTaskRuns ==
    /\ []ReturnedAfterOwnTask
    /\ \A k \in 1..MaxRequests : TaskQueued(k) ~> TaskRan(k)

C39_Witness ==
    /\ Len(cTasks) = 2
    /\ cTasks[1].status = "failed" /\ cTasks[1].written = 1
    /\ cTasks[2].status = "running"
    /\ cPc[cTasks[1].req] = "done"
    /\ cPc[cTasks[2].req] = "flush"

\* full mode: overwrite is called only when every batch has been embedded
EmbeddedBeforeOverwrite ==
    (mode = "full" /\ Called("overwrite")) =>
        TimesCalled("embed") = Passes(Len(items), batchSize)

\* the store an incremental run is meant to have made by the time the batch
\* at index k is embedded: the deletions and the batches before it applied
RowsBeforeBatch(k) ==
    WithoutIds(prior.rows, toDelete)
        (+) BagOfSeq(Records(Slice(addItems, 0, k), embedTexts(Contents_(Slice(addItems, 0, k)))))

\* C40: in full mode every chunk is embedded before the store is touched, so
\* an embedding failure ends the run with the store and the manifest as they
\* were before it; in incremental mode an embedding failure at a batch
\* leaves the deletions and the batches before it applied and the manifest
\* unchanged.
C40_EmbeddingFailure ==
    /\ []EmbeddedBeforeOverwrite
    /\ [][(pc = "fullEmbed" /\ pc' = "failed") =>
              /\ rows' = prior.rows
              /\ manifestFile' = prior.manifestFile]_vars
    /\ [][(pc = "incEmbed" /\ pc' = "failed") =>
              /\ rows' = RowsBeforeBatch(i)
              /\ manifestFile' = prior.manifestFile]_vars

====
